---- MODULE Spec2Model ----
(***************************************************************************)
(* Verification model of the EcoTrip Planner emissions and alternative-    *)
(* route engine (components/carbon_calculator.py, ml_emissions_model.py,   *)
(* ml_route_predictor.py, route_analyzer.py, models.py).                   *)
(*                                                                         *)
(* Numbers are exact fixed-point integers:                                 *)
(*   distance   centi-km   (0.01 km)      factor    1e-4 kg CO2e per km    *)
(*   emissions  milli-kg   (0.001 kg)     cost      paise (0.01 INR)       *)
(*   duration   centi-hour (0.01 h)                                        *)
(* Python's round(x, k) is round-half-even on the exact value.             *)
(***************************************************************************)
EXTENDS Integers, Sequences, FiniteSets, TLC

VARIABLES
    lists,      \* heap of Python list objects: list id -> sequence of messages
    errRef,     \* CarbonCalculator._calculation_errors: list id, 0 = attribute not set
    last,       \* most recent call on the calculator: operation, inputs, returned value
    held,       \* an EmissionsResult a caller still holds: fields, warnings object, warnings as returned
    calls,      \* number of calls made on the calculator so far
    pc,         \* per worker: position inside calculate_total_emissions
    job,        \* per worker: the (trip, distance) it evaluates and its locals
    alts,       \* list returned by the last alternatives operation
    altIn,      \* inputs of the last alternatives operation
    fn,         \* last call of a stateless estimator or validator: operation, arguments, result
    opt,        \* last call of a RouteOptimizer operation: operation, arguments, result
    api,        \* the call of the API client in progress: arguments, loop position, requests sent
    geo,        \* the GeographicDataManager built and the last query made on it
    sess,       \* st.session_state, the last SessionStateManager call and what was stored per key
    rate,       \* one client used for several calls: rate-limit counters, clock readings, requests sent in the window
    app         \* one browser session of app.py: session values, flags, form widgets, what the last run displayed

vars == <<lists, errRef, last, held, calls, pc, job, alts, altIn, fn, opt, api, geo, sess, rate, app>>

(***************************************************************************)
(* Bounds of the model                                                     *)
(***************************************************************************)
MaxCalls == 3            \* calls made on one CarbonCalculator in a run
MaxSmallTravelers == 3   \* travelers are drawn from 0..MaxSmallTravelers and the limit cases
MaxSmallNights == 2      \* nights are drawn from -1..MaxSmallNights and the limit cases
MaxPersonKm == 500000    \* travelers * km of an enumerated request (keeps milli-kg in 32 bits)
MaxPersonNights == 1100  \* travelers * nights of an enumerated request

(***************************************************************************)
(* Arithmetic helpers                                                      *)
(***************************************************************************)
Max2(a, b) == IF a >= b THEN a ELSE b
Min2(a, b) == IF a <= b THEN a ELSE b
AbsVal(a) == IF a >= 0 THEN a ELSE 0 - a

\* Python round(): num/den rounded to the nearest integer, ties to even (den > 0)
RoundHalfEven(num, den) ==
    LET q == num \div den
        r == num % den
    IN  IF 2 * r < den THEN q
        ELSE IF 2 * r > den THEN q + 1
        ELSE IF q % 2 = 0 THEN q ELSE q + 1

\* round(a * b / den) for a >= 0, b >= 0 without leaving 32 bits: a is split at den
MulDivRound(a, b, den) ==
    LET aq == a \div den
        ar == a % den
        q  == aq * b + ((ar * b) \div den)
        r  == (ar * b) % den
    IN  IF 2 * r < den THEN q
        ELSE IF 2 * r > den THEN q + 1
        ELSE IF q % 2 = 0 THEN q ELSE q + 1

RECURSIVE SelectSeqOf(_, _)
\* [x for x in s if x in S]
SelectSeqOf(s, S) ==
    IF s = <<>> THEN <<>>
    ELSE IF Head(s) \in S THEN <<Head(s)>> \o SelectSeqOf(Tail(s), S)
    ELSE SelectSeqOf(Tail(s), S)

Range(s) == {s[i] : i \in 1..Len(s)}

(***************************************************************************)
(* MLEmissionsPredictor (ml_emissions_model.py)                            *)
(***************************************************************************)
SupportedModes == <<"Flight", "Train", "Car", "Bus">>
SupportedSet == Range(SupportedModes)
FactorModes == SupportedSet \cup {"Hotel"}

\* base_emission_factors[mode]['base'] of the transport modes, in 1e-8 kg per km
BaseFactor8(mode) ==
    CASE mode = "Flight" -> 25500000
      [] mode = "Train"  -> 4100000
      [] mode = "Car"    -> 17100000
      [] mode = "Bus"    -> 8900000
      [] OTHER           -> 0

\* base_emission_factors[mode]['distance_factor'] per centi-km, in 1e-8 kg per km
DistanceFactor8(mode) ==
    CASE mode = "Flight" -> 100
      [] mode = "Train"  -> 0
      [] mode = "Car"    -> 0 - 50
      [] mode = "Bus"    -> 0 - 20
      [] OTHER           -> 0

\* region 'IN' multiplier in twentieths: Train * 0.95, Car * 1.05
RegionMult20(mode) ==
    CASE mode = "Train" -> 19
      [] mode = "Car"   -> 21
      [] OTHER          -> 20

HotelBaseMilli == 30000     \* base_emission_factors['Hotel']['base'] = 30.0 kg per night
DistanceCapCkm == 200000    \* min(distance_km, 2000)
FactorFloor8 == 1000000     \* max(0.01, ...)

\* round(adjusted_factor, 4) of a value given in twentieths of 1e-8.  An exact decimal
\* tie is decided by the binary floating-point value: for Train the product
\* 0.041 * 0.95 evaluates to 0.038949999999999995, below the tie 0.03895, so it
\* rounds down to 0.0389.
RoundFactor(mode, value20) ==
    IF mode = "Train" /\ value20 % 200000 = 100000
    THEN value20 \div 200000
    ELSE RoundHalfEven(value20, 200000)

\* predict_emission_factor(transport_mode, distance_km, num_travelers): 1e-4 kg per km
predict_emission_factor(mode, distance_ckm, num_travelers) ==
    IF mode \notin FactorModes THEN 0
    ELSE IF mode = "Hotel" THEN HotelBaseMilli * 10
    ELSE IF distance_ckm <= 0 THEN BaseFactor8(mode) \div 10000
    ELSE LET adjusted20 == (BaseFactor8(mode)
                             + DistanceFactor8(mode) * Min2(distance_ckm, DistanceCapCkm))
                           * RegionMult20(mode)
             clamped20 == Max2(FactorFloor8 * 20, Min2(adjusted20, BaseFactor8(mode) * 30))
         IN  RoundFactor(mode, clamped20)

\* predict_accommodation_emissions(nights, num_travelers) with hotel_type 'standard': milli-kg
predict_accommodation_emissions(nights, num_travelers) ==
    HotelBaseMilli * nights * num_travelers

(***************************************************************************)
(* TripData (models.py)                                                    *)
(***************************************************************************)
NoDate == 0     \* return_date = None; real dates are day numbers >= 1

\* TripData.validate()
TripValidate(trip) ==
    /\ trip.origin_city # "" /\ trip.destination_city # ""
    /\ trip.num_travelers >= 1
    /\ trip.hotel_nights >= 0
    /\ \A i \in 1..Len(trip.travel_modes) : trip.travel_modes[i] \in SupportedSet
    /\ ~(trip.travel_modes = <<>> /\ trip.hotel_nights <= 0)
    /\ ~(trip.return_date # NoDate /\ trip.return_date < trip.outbound_date)

(***************************************************************************)
(* CarbonCalculator (carbon_calculator.py)                                 *)
(***************************************************************************)
MaxDistanceCkm == 5000000   \* 50000 km
MaxTravelers == 100
MaxHotelNights == 365

\* the messages validate_calculation_inputs collects, in order
ValidationErrors(trip, distance_ckm) ==
    (IF ~TripValidate(trip) THEN <<"Trip data validation failed">> ELSE <<>>)
    \o (IF distance_ckm < 0 THEN <<"Distance cannot be negative">>
        ELSE IF distance_ckm > MaxDistanceCkm
             THEN <<"Distance appears unreasonably large (>50,000 km)">>
        ELSE <<>>)
    \o (IF trip.travel_modes = <<>> /\ trip.hotel_nights <= 0
        THEN <<"At least one travel mode must be selected or hotel nights must be greater than 0">>
        ELSE <<>>)
    \o (IF SelectSeqOf(trip.travel_modes, Range(trip.travel_modes) \ SupportedSet) # <<>>
        THEN <<"Unsupported travel modes">> ELSE <<>>)
    \o (IF trip.num_travelers <= 0 THEN <<"Number of travelers must be positive">>
        ELSE IF trip.num_travelers > MaxTravelers
             THEN <<"Number of travelers exceeds reasonable limit (100)">>
        ELSE <<>>)
    \o (IF trip.hotel_nights < 0 THEN <<"Hotel nights cannot be negative">>
        ELSE IF trip.hotel_nights > MaxHotelNights
             THEN <<"Hotel nights exceeds reasonable limit (365)">>
        ELSE <<>>)

\* The calculator object is h = [lists, errRef]; an operation yields [h, ret].
\* self._calculation_errors.extend(msgs) if the attribute exists, else bind it to msgs
ExtendErrors(h, msgs) ==
    IF h.errRef # 0
    THEN [lists |-> [h.lists EXCEPT ![h.errRef] = @ \o msgs], errRef |-> h.errRef]
    ELSE [lists |-> Append(h.lists, msgs), errRef |-> Len(h.lists) + 1]

\* self._calculation_errors = []
ResetErrors(h) == [lists |-> Append(h.lists, <<>>), errRef |-> Len(h.lists) + 1]

validate_calculation_inputs(h, trip, distance_ckm) ==
    LET errs == ValidationErrors(trip, distance_ckm)
    IN  IF errs # <<>> THEN [h |-> ExtendErrors(h, errs), ret |-> FALSE]
        ELSE [h |-> h, ret |-> TRUE]

NoFactorMsg(mode) ==
    CASE mode = "Boat" -> "No emission factor available for Boat"
      [] OTHER         -> "No emission factor available for mode"

RECURSIVE TransportLoop(_, _, _, _)
\* the for-loop of calculate_transport_emissions over modes[i..]:
\* [emissions |-> dict built so far, errors |-> calculation_errors so far]
TransportLoop(trip, distance_ckm, i, acc) ==
    IF i > Len(trip.travel_modes) THEN acc
    ELSE LET mode == trip.travel_modes[i]
             emission_factor == predict_emission_factor(mode, distance_ckm, trip.num_travelers)
             emissions == MulDivRound(Max2(distance_ckm, 0),
                                      emission_factor * trip.num_travelers, 1000)
         IN  IF emission_factor > 0
             THEN TransportLoop(trip, distance_ckm, i + 1,
                    [emissions |-> [m \in DOMAIN acc.emissions \cup {mode} |->
                                       IF m = mode THEN emissions ELSE acc.emissions[m]],
                     errors |-> acc.errors])
             ELSE TransportLoop(trip, distance_ckm, i + 1,
                    [emissions |-> acc.emissions,
                     errors |-> Append(acc.errors, NoFactorMsg(mode))])

EmptyDict == [m \in {} |-> 0]

\* calculate_transport_emissions(trip_data, distance_km): ret is the dict mode -> milli-kg
calculate_transport_emissions(h, trip, distance_ckm) ==
    LET v == validate_calculation_inputs(h, trip, distance_ckm)
        loop == TransportLoop(trip, distance_ckm, 1, [emissions |-> EmptyDict, errors |-> <<>>])
        calculation_errors ==
            IF ~v.ret
            THEN <<"Transport emissions calculation failed: Invalid calculation inputs provided">>
            ELSE IF loop.emissions = EmptyDict /\ loop.errors # <<>>
            THEN Append(loop.errors,
                   "Transport emissions calculation failed: Failed to calculate emissions for any transport mode")
            ELSE loop.errors
    IN  [h |-> ExtendErrors(v.h, calculation_errors),
         ret |-> IF v.ret THEN loop.emissions ELSE EmptyDict]

\* calculate_accommodation_emissions(trip_data): ret in milli-kg
calculate_accommodation_emissions(h, trip) ==
    LET emissions == predict_accommodation_emissions(trip.hotel_nights, trip.num_travelers)
        fail(msg) == [h |-> ExtendErrors(h, <<msg>>), ret |-> 0]
    IN  IF trip.hotel_nights <= 0 THEN [h |-> h, ret |-> 0]
        ELSE IF trip.num_travelers <= 0
        THEN fail("Accommodation emissions calculation failed: Number of travelers must be positive")
        ELSE IF trip.hotel_nights > MaxHotelNights
        THEN fail("Accommodation emissions calculation failed: Hotel nights cannot exceed 365")
        ELSE IF emissions > 0 THEN [h |-> h, ret |-> emissions]
        ELSE fail("Accommodation emissions calculation failed: No emission factor available for hotel accommodation")

RECURSIVE SumOver(_, _)
SumOver(d, S) ==
    IF S = {} THEN 0
    ELSE LET m == CHOOSE x \in S : TRUE IN d[m] + SumOver(d, S \ {m})

\* sum(transport_emissions.values())
SumDict(d) == SumOver(d, DOMAIN d)

\* EmissionsResult; warnRef = 0 is calculation_warnings = None, else the id of the list object
\* aggregate_total_emissions with the accommodation left out of the total
aggregate_total_emissions_NoAccommodation(transport_emissions, accommodation_emissions, num_travelers) ==
    LET total_emissions == SumDict(transport_emissions)
    IN  [total_co2e_kg |-> total_emissions,
         transport_emissions |-> transport_emissions,
         accommodation_emissions |-> accommodation_emissions,
         per_person_emissions |-> RoundHalfEven(total_emissions, Max2(1, num_travelers)),
         warnRef |-> 0]

\* aggregate_total_emissions(transport_emissions, accommodation_emissions, num_travelers)
aggregate_total_emissions(transport_emissions, accommodation_emissions, num_travelers) ==
    LET total_emissions == SumDict(transport_emissions) + accommodation_emissions
    IN  [total_co2e_kg |-> total_emissions,
         transport_emissions |-> transport_emissions,
         accommodation_emissions |-> accommodation_emissions,
         per_person_emissions |-> RoundHalfEven(total_emissions, Max2(1, num_travelers)),
         warnRef |-> 0]

\* the except branch of calculate_total_emissions
FailedResult(h, msg) ==
    LET h2 == [lists |-> [h.lists EXCEPT ![h.errRef] = Append(@, msg)], errRef |-> h.errRef]
    IN  [h |-> h2,
         ret |-> [total_co2e_kg |-> 0, transport_emissions |-> EmptyDict,
                  accommodation_emissions |-> 0, per_person_emissions |-> 0,
                  warnRef |-> h2.errRef]]

\* calculate_total_emissions(trip_data, distance_km)
calculate_total_emissions(h, trip, distance_ckm) ==
    LET h0 == ResetErrors(h)
        v  == validate_calculation_inputs(h0, trip, distance_ckm)
        t  == calculate_transport_emissions(v.h, trip, distance_ckm)
        a  == calculate_accommodation_emissions(t.h, trip)
        result == aggregate_total_emissions(t.ret, a.ret, trip.num_travelers)
    IN  IF ~v.ret
        THEN FailedResult(v.h, "Emissions calculation failed: Invalid inputs for emissions calculation")
        ELSE IF t.ret = EmptyDict /\ a.ret = 0
        THEN FailedResult(a.h, "Emissions calculation failed: No valid emissions could be calculated")
        ELSE [h |-> a.h,
              ret |-> IF a.h.lists[a.h.errRef] # <<>>
                      THEN [result EXCEPT !.warnRef = a.h.errRef]
                      ELSE result]

\* clear_calculation_errors()
clear_calculation_errors(h) == ResetErrors(h)

(***************************************************************************)
(* Requests the model enumerates                                           *)
(***************************************************************************)
MakeTrip(origin, outbound, return, modes, travelers, nights) ==
    [origin_city |-> origin, destination_city |-> "Mumbai",
     outbound_date |-> outbound, return_date |-> return,
     travel_modes |-> modes, num_travelers |-> travelers, hotel_nights |-> nights]

BaseTrip(modes, travelers, nights) == MakeTrip("Delhi", 2, NoDate, modes, travelers, nights)

ModeLists == { <<>>, <<"Flight">>, <<"Train", "Car">>, <<"Bus">>,
               <<"Flight", "Train", "Car", "Bus">>,
               <<"Flight", "Boat">>, <<"Boat">>, <<"Hotel">> }
\* In Python an exact decimal tie of round() is decided by the binary value of the float;
\* the distances below produce no such tie in any enumerated request.
SmallDistances == {0 - 100, 0, 7, 30000, 123457, 250000}

SmallRequests ==
    { <<BaseTrip(m, n, k), d>> :
        m \in ModeLists, n \in 0..MaxSmallTravelers, k \in (0 - 1)..MaxSmallNights,
        d \in SmallDistances }

LimitRequests ==
    { <<BaseTrip(m, n, k), d>> :
        m \in ModeLists, n \in {50, 51, MaxTravelers, MaxTravelers + 1}, k \in {0, 2},
        d \in {30000, 250000} }
    \cup { <<BaseTrip(m, n, k), d>> :
        m \in ModeLists, n \in {1, 2}, k \in {MaxHotelNights, MaxHotelNights + 1},
        d \in {0, 30000} }
    \cup { <<BaseTrip(m, n, k), d>> :
        m \in ModeLists, n \in {1, 2}, k \in {0, 1},
        d \in {MaxDistanceCkm, MaxDistanceCkm + 1} }

EdgeRequests ==
    { <<MakeTrip(o, 2, r, <<"Flight">>, 2, k), 30000>> :
        o \in {"", "Delhi"}, r \in {NoDate, 1, 2, 3}, k \in {0, 1} }

InRange(req) ==
    /\ req[1].num_travelers * (req[2] \div 100) <= MaxPersonKm
    /\ req[1].num_travelers * req[1].hotel_nights <= MaxPersonNights

Requests == { req \in SmallRequests \cup LimitRequests \cup EdgeRequests : InRange(req) }

(***************************************************************************)
(* One call on a fresh CarbonCalculator: specification Spec                *)
(***************************************************************************)
Calc == [lists |-> lists, errRef |-> errRef]

\* the warnings a result shows: the current content of its list object
WarningsOf(heap, result) == IF result.warnRef = 0 THEN <<>> ELSE heap[result.warnRef]

NoResult == [total_co2e_kg |-> 0, transport_emissions |-> EmptyDict,
             accommodation_emissions |-> 0, per_person_emissions |-> 0, warnRef |-> 0]

IdleCall == [op |-> "none", trip |-> BaseTrip(<<>>, 0, 0), distance_km |-> 0,
             result |-> NoResult, warnings |-> <<>>, valid |-> TRUE]
IdleHeld == [active |-> FALSE, result |-> NoResult, warnings |-> <<>>]
IdleJob == [trip |-> BaseTrip(<<>>, 0, 0), distance_km |-> 0,
            transport_emissions |-> EmptyDict, accommodation_emissions |-> 0,
            error |-> "", result |-> NoResult, warnings |-> <<>>]

IdleWorkers ==
    /\ pc = [w \in {1, 2} |-> "idle"]
    /\ job = [w \in {1, 2} |-> IdleJob]
IdleAlternatives ==
    /\ alts = <<>>
    /\ altIn = [op |-> "none"]

(***************************************************************************)
(* SessionStateManager (session_manager.py).  A Python value handed to a   *)
(* store operation is a record: its type, the keys it has if it is a dict, *)
(* and the entries the code reads.                                         *)
(***************************************************************************)
TripDict(is_dict, keys, origin_city, outbound_date, return_date) ==
    [is_dict |-> is_dict, keys |-> keys, origin_city |-> origin_city,
     outbound_date |-> outbound_date, return_date |-> return_date]

EmissionsDict(is_dict, keys, total_co2e_kg, calculation_timestamp) ==
    [is_dict |-> is_dict, keys |-> keys, total_co2e_kg |-> total_co2e_kg,
     calculation_timestamp |-> calculation_timestamp]

AlternativesList(is_list, items) == [is_list |-> is_list, items |-> items]

\* the defaults {}, {}, [], False
DefaultValue ==
    [trip_data |-> TripDict(TRUE, {}, "", "", ""),
     emissions_data |-> EmissionsDict(TRUE, {}, 0, ""),
     alternatives_data |-> AlternativesList(TRUE, <<>>),
     calculation_in_progress |-> [is_bool |-> TRUE, value |-> FALSE]]

SessionKeys == DOMAIN DefaultValue

\* st.session_state of a new session: no key is present; value holds the entries
\* of the keys that are
FreshSession ==
    [state |-> [present |-> {}, value |-> DefaultValue],
     call |-> [op |-> "none"],
     storedSinceClear |-> [k \in SessionKeys |-> <<>>],
     storedSinceReset |-> [k \in SessionKeys |-> <<>>],
     ops |-> 0]

\* the widgets of the trip form before anything was entered
DefaultWidgets ==
    [origin_city |-> "Salem", destination_city |-> "Chennai",
     travel_modes |-> <<"Flight">>, num_travelers |-> 1]

\* a browser session before the first run of the script: <<>> stands for a
\* key that holds its default ({} or [])
FreshApp ==
    [trip |-> <<>>, emissions |-> <<>>, alternatives |-> <<>>, made_for |-> <<>>,
     alternatives_generated |-> FALSE, calculation_completed |-> FALSE,
     widgets |-> DefaultWidgets, shown |-> <<>>, runs |-> 0]

IdleOthers ==
    /\ fn = [op |-> "none"]
    /\ opt = [op |-> "none"]
    /\ api = [op |-> "none", has_key |-> TRUE, request_count |-> 0, max_retries |-> 0,
              script |-> <<>>, attempt |-> 0, sent |-> 0, last |-> "none",
              pc |-> "idle", result |-> "pending"]
    /\ geo = [op |-> "none"]
    /\ sess = FreshSession
    /\ rate = [pc |-> "new", service |-> "none", request_count |-> 0, window_age |-> 0,
               since_last |-> 0 - 1, sent |-> 0, calls |-> 0, attempt |-> 0,
               max_retries |-> 0]
    /\ app = FreshApp

Init ==
    /\ lists = <<>>
    /\ errRef = 0
    /\ last = IdleCall
    /\ held = IdleHeld
    /\ calls = 0
    /\ IdleWorkers
    /\ IdleAlternatives
    /\ IdleOthers

\* result = calculator.calculate_total_emissions(trip, distance); the caller may keep the result
TotalCall(req, keep) ==
    LET r == calculate_total_emissions(Calc, req[1], req[2])
        shown == WarningsOf(r.h.lists, r.ret)
    IN  /\ lists' = r.h.lists
        /\ errRef' = r.h.errRef
        /\ last' = [op |-> "calculate_total_emissions", trip |-> req[1],
                    distance_km |-> req[2], result |-> r.ret,
                    warnings |-> shown, valid |-> TRUE]
        /\ held' = IF keep /\ ~held.active
                   THEN [active |-> TRUE, result |-> r.ret, warnings |-> shown]
                   ELSE held
        /\ calls' = calls + 1
        /\ UNCHANGED <<pc, job, alts, altIn, fn, opt, api, geo, sess, rate, app>>

CalculateTotalEmissions ==
    /\ calls = 0
    /\ \E req \in Requests : TotalCall(req, FALSE)

Next == CalculateTotalEmissions

Spec == Init /\ [][Next]_vars

(***************************************************************************)
(* Claims about calculate_total_emissions, checked under Spec              *)
(***************************************************************************)
Returned == last.op = "calculate_total_emissions"

IsZeroResult(r) ==
    /\ r.total_co2e_kg = 0
    /\ r.transport_emissions = EmptyDict
    /\ r.accommodation_emissions = 0
    /\ r.per_person_emissions = 0

\* the requested modes that can produce emissions: supported, over a positive distance
UsableModes(trip, distance_ckm) ==
    { m \in Range(trip.travel_modes) :
        m \in SupportedSet /\ distance_ckm > 0 /\ trip.num_travelers >= 1 }

\* the accommodation can produce emissions
UsableNights(trip) ==
    trip.hotel_nights >= 1 /\ trip.hotel_nights <= MaxHotelNights /\ trip.num_travelers >= 1

\* C1: calculate_total_emissions returns the fully zero-valued EmissionsResult only
\* when no requested mode is usable and there are no nights to account for; any
\* other validation failure still leaves a computed result.
C1_ZeroOnlyWhenUnrecoverable ==
    (Returned /\ IsZeroResult(last.result))
        => (UsableModes(last.trip, last.distance_km) = {} /\ ~UsableNights(last.trip))

\* C2: a requested mode whose distance is zero or negative, or whose emission
\* factor resolves to 0, is left out of per_mode with a warning recorded, while
\* every other requested mode and the accommodation are still computed.
C2_DegradedModeOmittedOthersComputed ==
    Returned =>
        \A m \in Range(last.trip.travel_modes) :
            (last.distance_km <= 0
               \/ predict_emission_factor(m, last.distance_km, last.trip.num_travelers) = 0)
            => /\ m \notin DOMAIN last.result.transport_emissions
               /\ last.warnings # <<>>
               /\ UsableModes(last.trip, last.distance_km)
                     \subseteq DOMAIN last.result.transport_emissions
               /\ UsableNights(last.trip) =>
                     last.result.accommodation_emissions
                        = HotelBaseMilli * last.trip.hotel_nights * last.trip.num_travelers

ModeShare(r, m) ==
    IF m \in DOMAIN r.transport_emissions THEN r.transport_emissions[m] ELSE 0

\* C3: in every EmissionsResult returned by calculate_total_emissions, total_kg is
\* the sum of the per-mode values plus accommodation_kg.
C3_TotalIsSumOfParts ==
    Returned =>
        /\ DOMAIN last.result.transport_emissions \subseteq SupportedSet
        /\ last.result.total_co2e_kg =
              ModeShare(last.result, "Flight") + ModeShare(last.result, "Train")
              + ModeShare(last.result, "Car") + ModeShare(last.result, "Bus")
              + last.result.accommodation_emissions

\* a result with several modes and accommodation has been returned
C3_Witness ==
    /\ Returned
    /\ Cardinality(DOMAIN last.result.transport_emissions) >= 2
    /\ last.result.accommodation_emissions > 0
    /\ last.result.total_co2e_kg > last.result.accommodation_emissions

ScalingTolerance == 10      \* 0.01 kg, the tolerance of the linear-scaling test

\* C4: with only travelers changed from n to 2n, calculate_total_emissions returns
\* twice the total_kg (within 0.01 kg).
C4_DoublingTravelersDoublesTotal ==
    Returned =>
        LET doubled == [last.trip EXCEPT !.num_travelers = 2 * @]
            r2 == calculate_total_emissions(Calc, doubled, last.distance_km).ret
        IN  AbsVal(r2.total_co2e_kg - 2 * last.result.total_co2e_kg) <= ScalingTolerance

(***************************************************************************)
(* Any sequence of calls on one CarbonCalculator: specification SpecSeq    *)
(***************************************************************************)
SeqRequests ==
    { <<BaseTrip(<<"Flight">>, 2, 1), 30000>>,
      <<BaseTrip(<<"Flight">>, 0, 1), 30000>>,
      <<BaseTrip(<<"Boat">>, 2, MaxHotelNights + 1), 30000>>,
      <<BaseTrip(<<"Train">>, 1, 0), 0 - 100>> }

\* a call that returns no EmissionsResult leaves the caller with the value ret
OtherCall(name, req, h, result, valid) ==
    /\ lists' = h.lists
    /\ errRef' = h.errRef
    /\ last' = [op |-> name, trip |-> req[1], distance_km |-> req[2],
                result |-> result, warnings |-> <<>>, valid |-> valid]
    /\ calls' = calls + 1
    /\ UNCHANGED <<held, pc, job, alts, altIn, fn, opt, api, geo, sess, rate, app>>

SeqCalculateTotalEmissions ==
    /\ calls < MaxCalls
    /\ \E req \in SeqRequests, keep \in BOOLEAN : TotalCall(req, keep)

SeqCalculateTransportEmissions ==
    /\ calls < MaxCalls
    /\ \E req \in SeqRequests :
         LET r == calculate_transport_emissions(Calc, req[1], req[2])
         IN  OtherCall("calculate_transport_emissions", req, r.h,
                       [NoResult EXCEPT !.transport_emissions = r.ret], TRUE)

SeqCalculateAccommodationEmissions ==
    /\ calls < MaxCalls
    /\ \E req \in SeqRequests :
         LET r == calculate_accommodation_emissions(Calc, req[1])
         IN  OtherCall("calculate_accommodation_emissions", req, r.h,
                       [NoResult EXCEPT !.accommodation_emissions = r.ret], TRUE)

SeqValidateCalculationInputs ==
    /\ calls < MaxCalls
    /\ \E req \in SeqRequests :
         LET r == validate_calculation_inputs(Calc, req[1], req[2])
         IN  OtherCall("validate_calculation_inputs", req, r.h, NoResult, r.ret)

SeqClearCalculationErrors ==
    /\ calls < MaxCalls
    /\ OtherCall("clear_calculation_errors", <<last.trip, last.distance_km>>,
                 clear_calculation_errors(Calc), NoResult, TRUE)

NextSeq ==
    \/ SeqCalculateTotalEmissions
    \/ SeqCalculateTransportEmissions
    \/ SeqCalculateAccommodationEmissions
    \/ SeqValidateCalculationInputs
    \/ SeqClearCalculationErrors

SpecSeq == Init /\ [][NextSeq]_vars

\* C5: once calculate_total_emissions has returned an EmissionsResult, no later
\* call on the same CarbonCalculator changes any of its fields: the warnings the
\* held result shows stay the warnings it was returned with (its numeric fields
\* and per-mode dict are referenced by nothing but the result).
C5_ReturnedResultNeverChanges ==
    held.active => WarningsOf(lists, held.result) = held.warnings

(***************************************************************************)
(* Two workers inside calculate_total_emissions on one CarbonCalculator,   *)
(* interleaved at the statements of the method: specification SpecPar      *)
(***************************************************************************)
Workers == {1, 2}

ParRequests ==
    { <<BaseTrip(<<"Flight">>, 2, 1), 30000>>,
      <<BaseTrip(<<"Train", "Car">>, 1, 0), 123457>>,
      <<BaseTrip(<<"Flight">>, MaxTravelers + 1, 1), 30000>>,
      <<BaseTrip(<<"Bus">>, 1, 0), 0 - 100>> }

SetHeap(h) == lists' = h.lists /\ errRef' = h.errRef

ParFrame == UNCHANGED <<last, held, calls, alts, altIn, fn, opt, api, geo, sess, rate, app>>

\* line 97: self._calculation_errors = []
ParBegin(w) ==
    /\ pc[w] = "idle"
    /\ \E req \in ParRequests :
         job' = [job EXCEPT ![w] = [IdleJob EXCEPT !.trip = req[1], !.distance_km = req[2]]]
    /\ SetHeap(ResetErrors(Calc))
    /\ pc' = [pc EXCEPT ![w] = "validate"]
    /\ ParFrame

\* lines 101-102: validate, raise ValueError when invalid
ParValidate(w) ==
    /\ pc[w] = "validate"
    /\ LET v == validate_calculation_inputs(Calc, job[w].trip, job[w].distance_km)
       IN  /\ SetHeap(v.h)
           /\ pc' = [pc EXCEPT ![w] = IF v.ret THEN "transport" ELSE "except"]
           /\ job' = [job EXCEPT ![w].error =
                         IF v.ret THEN ""
                         ELSE "Emissions calculation failed: Invalid inputs for emissions calculation"]
    /\ ParFrame

\* line 105
ParTransport(w) ==
    /\ pc[w] = "transport"
    /\ LET t == calculate_transport_emissions(Calc, job[w].trip, job[w].distance_km)
       IN  /\ SetHeap(t.h)
           /\ job' = [job EXCEPT ![w].transport_emissions = t.ret]
    /\ pc' = [pc EXCEPT ![w] = "accommodation"]
    /\ ParFrame

\* line 108
ParAccommodation(w) ==
    /\ pc[w] = "accommodation"
    /\ LET a == calculate_accommodation_emissions(Calc, job[w].trip)
       IN  /\ SetHeap(a.h)
           /\ job' = [job EXCEPT ![w].accommodation_emissions = a.ret]
    /\ pc' = [pc EXCEPT ![w] = "aggregate"]
    /\ ParFrame

\* lines 111-121: aggregate, attach the warnings, return
ParAggregate(w) ==
    /\ pc[w] = "aggregate"
    /\ IF job[w].transport_emissions = EmptyDict /\ job[w].accommodation_emissions = 0
       THEN /\ pc' = [pc EXCEPT ![w] = "except"]
            /\ job' = [job EXCEPT ![w].error =
                          "Emissions calculation failed: No valid emissions could be calculated"]
       ELSE LET result == aggregate_total_emissions(job[w].transport_emissions,
                              job[w].accommodation_emissions, job[w].trip.num_travelers)
                ret == IF lists[errRef] # <<>> THEN [result EXCEPT !.warnRef = errRef]
                       ELSE result
            IN  /\ pc' = [pc EXCEPT ![w] = "done"]
                /\ job' = [job EXCEPT ![w].result = ret,
                                      ![w].warnings = WarningsOf(lists, ret)]
    /\ UNCHANGED <<lists, errRef>>
    /\ ParFrame

\* lines 123-135: the except branch
ParExcept(w) ==
    /\ pc[w] = "except"
    /\ LET f == FailedResult(Calc, job[w].error)
       IN  /\ SetHeap(f.h)
           /\ job' = [job EXCEPT ![w].result = f.ret,
                                 ![w].warnings = WarningsOf(f.h.lists, f.ret)]
    /\ pc' = [pc EXCEPT ![w] = "done"]
    /\ ParFrame

NextPar ==
    \E w \in Workers :
        \/ ParBegin(w)
        \/ ParValidate(w)
        \/ ParTransport(w)
        \/ ParAccommodation(w)
        \/ ParAggregate(w)
        \/ ParExcept(w)

SpecPar == Init /\ [][NextPar]_vars

FreshCalc == [lists |-> <<>>, errRef |-> 0]

\* what the caller sees of a result: its values and the warnings it came with
Visible(result, warnings) ==
    [total_co2e_kg |-> result.total_co2e_kg,
     transport_emissions |-> result.transport_emissions,
     accommodation_emissions |-> result.accommodation_emissions,
     per_person_emissions |-> result.per_person_emissions,
     has_warnings |-> result.warnRef # 0,
     warnings |-> warnings]

\* the result of the same request evaluated alone
Alone(trip, distance_ckm) ==
    LET r == calculate_total_emissions(FreshCalc, trip, distance_ckm)
    IN  Visible(r.ret, WarningsOf(r.h.lists, r.ret))

\* C6: when two requests are evaluated in parallel on one CarbonCalculator, each
\* call returns the EmissionsResult (values and warnings) it returns when run alone.
C6_ParallelResultEqualsAlone ==
    \A w \in Workers :
        pc[w] = "done" =>
            Visible(job[w].result, job[w].warnings) = Alone(job[w].trip, job[w].distance_km)

(***************************************************************************)
(* MLRoutePredictor (ml_route_predictor.py)                                *)
(***************************************************************************)
\* route_efficiency[mode] in hundredths
RouteEfficiency100(mode) ==
    CASE mode = "Flight" -> 100
      [] mode = "Train"  -> 115
      [] mode = "Car"    -> 120
      [] mode = "Bus"    -> 125
      [] OTHER           -> 120

\* mode_speeds[mode] in km/h
ModeSpeed(mode) ==
    CASE mode = "Flight" -> 500
      [] mode = "Train"  -> 60
      [] mode = "Car"    -> 50
      [] mode = "Bus"    -> 45
      [] OTHER           -> 50

\* mode_buffers[mode] in centi-hours
ModeBuffer(mode) ==
    CASE mode = "Flight" -> 300
      [] mode = "Train"  -> 100
      [] mode = "Car"    -> 50
      [] mode = "Bus"    -> 100
      [] OTHER           -> 50

MinDuration == 50       \* max(total_time, 0.5)

\* predict_distance: direct_ckm is geo_manager.calculate_distance(origin, destination),
\* 0 when a city is unknown or both are the same
predict_distance(direct_ckm, mode) ==
    IF direct_ckm <= 0 THEN 0
    ELSE RoundHalfEven(direct_ckm * RouteEfficiency100(mode), 100)

\* predict_duration, in centi-hours
predict_duration(direct_ckm, mode) ==
    LET distance == predict_distance(direct_ckm, mode)
    IN  IF distance <= 0 THEN 0
        ELSE Max2(RoundHalfEven(distance + ModeBuffer(mode) * ModeSpeed(mode), ModeSpeed(mode)),
                  MinDuration)

RECURSIVE PredictLoop(_, _)
PredictLoop(direct_ckm, modes) ==
    IF modes = <<>> THEN <<>>
    ELSE LET mode == Head(modes)
             distance == predict_distance(direct_ckm, mode)
         IN  (IF distance > 0
              THEN <<[mode |-> mode, distance_km |-> distance,
                      duration_hours |-> predict_duration(direct_ckm, mode)]>>
              ELSE <<>>)
             \o PredictLoop(direct_ckm, Tail(modes))

\* predict_alternative_routes(origin, destination) with modes = None
predict_alternative_routes(direct_ckm) == PredictLoop(direct_ckm, SupportedModes)

(***************************************************************************)
(* RouteAnalyzer (route_analyzer.py)                                       *)
(***************************************************************************)
\* cost_factors[mode] in tenths of INR per km
CostFactor10(mode) ==
    CASE mode = "Flight" -> 80
      [] mode = "Train"  -> 12
      [] mode = "Car"    -> 60
      [] mode = "Bus"    -> 25
      [] OTHER           -> 0

\* base_costs[mode] in INR
BaseCost(mode) ==
    CASE mode = "Flight" -> 500
      [] mode = "Train"  -> 50
      [] mode = "Car"    -> 0
      [] mode = "Bus"    -> 25
      [] OTHER           -> 0

\* estimate_costs(mode, distance_km, num_travelers), in thousandths of INR, unrounded
estimate_costs(mode, distance_ckm, num_travelers) ==
    (BaseCost(mode) * 1000 + distance_ckm * CostFactor10(mode)) * num_travelers

\* calculate_emissions_by_mode(mode, distance_km, num_travelers), in milli-kg
calculate_emissions_by_mode(mode, distance_ckm, num_travelers) ==
    MulDivRound(distance_ckm,
                predict_emission_factor(mode, distance_ckm, num_travelers) * num_travelers, 1000)

RECURSIVE InsertByEmissions(_, _)
\* insertion behind every entry whose emissions are not larger (list.sort is stable)
InsertByEmissions(x, s) ==
    IF s = <<>> THEN <<x>>
    ELSE IF Head(s).co2e_emissions_kg <= x.co2e_emissions_kg
         THEN <<Head(s)>> \o InsertByEmissions(x, Tail(s))
         ELSE <<x>> \o s

RECURSIVE SortFrom(_, _)
SortFrom(sorted, rest) ==
    IF rest = <<>> THEN sorted
    ELSE SortFrom(InsertByEmissions(Head(rest), sorted), Tail(rest))

RECURSIVE Reverse(_)
Reverse(s) == IF s = <<>> THEN <<>> ELSE Append(Reverse(Tail(s)), Head(s))

\* sort with reverse=True
SortByEmissionsDescending(s) == Reverse(SortFrom(<<>>, Reverse(s)))

\* alternatives.sort(key=lambda x: x['co2e_emissions_kg'])
SortByEmissions(s) == SortFrom(<<>>, s)

RECURSIVE AnalyzeLoop(_, _, _)
\* the for-loop of generate_alternatives; a mode in failing raises inside the try
AnalyzeLoop(predicted, baseline_emissions, failing) ==
    IF predicted = <<>> THEN <<>>
    ELSE LET p == Head(predicted)
             emissions_kg == calculate_emissions_by_mode(p.mode, p.distance_km, 1)
             estimated_cost == estimate_costs(p.mode, p.distance_km, 1)
         IN  (IF p.distance_km <= 0 \/ p.mode \in failing THEN <<>>
              ELSE <<[transport_mode |-> p.mode,
                      duration_hours |-> p.duration_hours,
                      distance_km |-> p.distance_km,
                      co2e_emissions_kg |-> emissions_kg,
                      estimated_cost_inr |-> RoundHalfEven(estimated_cost, 10),
                      emissions_savings_kg |-> baseline_emissions - emissions_kg,
                      cost_difference_inr |-> 0,
                      route_details |-> "ml_prediction"]>>)
             \o AnalyzeLoop(Tail(predicted), baseline_emissions, failing)

\* generate_alternatives restricted to the modes the user selected
generate_alternatives_SelectedOnly(direct_ckm, selected_modes, baseline_emissions, failing) ==
    SortByEmissions(AnalyzeLoop(PredictLoop(direct_ckm, SelectSeqOf(SupportedModes, Range(selected_modes))),
                                baseline_emissions, failing))

\* generate_alternatives(origin_city, destination_city, selected_modes, baseline_emissions)
generate_alternatives(direct_ckm, selected_modes, baseline_emissions, failing) ==
    LET predicted_routes == predict_alternative_routes(direct_ckm)
    IN  IF predicted_routes = <<>> THEN <<>>
        ELSE SortByEmissions(AnalyzeLoop(predicted_routes, baseline_emissions, failing))

\* rank_alternatives_by_emissions(alternatives)
rank_alternatives_by_emissions(alternatives) == SortByEmissions(alternatives)

\* compute_savings_relative_to_baseline(alternatives, baseline_emissions, baseline_cost)
compute_savings_relative_to_baseline(alternatives, baseline_emissions, baseline_cost) ==
    [i \in 1..Len(alternatives) |->
        [alternatives[i] EXCEPT
            !.emissions_savings_kg = baseline_emissions - alternatives[i].co2e_emissions_kg,
            !.cost_difference_inr = alternatives[i].estimated_cost_inr - baseline_cost]]

(***************************************************************************)
(* Specification SpecAlt: the alternatives engine.  Each step is one call  *)
(* of a RouteAnalyzer operation (or of the application's handler) on       *)
(* inputs drawn from bounded sets; altIn records the call, alts its result.*)
(* The analyzer keeps no state between calls, so a behaviour is one call.  *)
(***************************************************************************)
MaxRankLen == 3

\* results of geo_manager.calculate_distance in centi-km (0: unknown or identical city);
\* none of them puts a rounding of the floating-point code on an exact tie
DirectDistances == {0, 4, 28000, 115000, 176000, 240000}
SelectedLists == {<<>>, <<"Car">>, <<"Flight", "Train">>}
BaselineEmissions == {0, 45000}
BaselineCosts == {0, 60000}

RouteObject(emissions, cost, duration) ==
    [transport_mode |-> IF duration = 500 THEN "Car" ELSE "Bus",
     duration_hours |-> duration,
     distance_km |-> 25000,
     co2e_emissions_kg |-> emissions,
     estimated_cost_inr |-> cost,
     emissions_savings_kg |-> 0,
     cost_difference_inr |-> 0,
     route_details |-> "route"]

RouteObjects == {RouteObject(e, c, d) : e \in {1000, 2000}, c \in {50000, 90000}, d \in {500, 900}}
RouteLists == UNION {[1..k -> RouteObjects] : k \in 0..MaxRankLen}

AltCall(op, direct, selected, baseline_emissions, baseline_cost, failing, input) ==
    [op |-> op, direct |-> direct, selected_modes |-> selected,
     baseline_emissions |-> baseline_emissions, baseline_cost |-> baseline_cost,
     failing |-> failing, input |-> input]

AltFrame == UNCHANGED <<lists, errRef, last, held, calls, pc, job, fn, opt, api, geo, sess, rate, app>>

GenerateAlternatives ==
    /\ altIn.op = "none"
    /\ \E direct \in DirectDistances, selected \in SelectedLists,
       baseline \in BaselineEmissions, failing \in SUBSET SupportedSet :
        /\ alts' = generate_alternatives(direct, selected, baseline, failing)
        /\ altIn' = AltCall("generate_alternatives", direct, selected, baseline, 0, failing, <<>>)
        /\ AltFrame

\* app.py handle_alternative_routes: generate, sort again, store when non-empty
HandleAlternativeRoutes ==
    /\ altIn.op = "none"
    /\ \E direct \in DirectDistances, selected \in SelectedLists,
       baseline \in BaselineEmissions, failing \in SUBSET SupportedSet :
        LET alternatives == generate_alternatives(direct, selected, baseline, failing)
        IN  /\ alternatives # <<>>
            /\ alts' = SortByEmissions(alternatives)
            /\ altIn' = AltCall("handle_alternative_routes", direct, selected, baseline, 0, failing, <<>>)
            /\ AltFrame

RankAlternativesByEmissions ==
    /\ altIn.op = "none"
    /\ \E input \in RouteLists :
        /\ alts' = rank_alternatives_by_emissions(input)
        /\ altIn' = AltCall("rank_alternatives_by_emissions", 0, <<>>, 0, 0, {}, input)
        /\ AltFrame

ComputeSavingsRelativeToBaseline ==
    /\ altIn.op = "none"
    /\ \E input \in RouteLists, baseline \in BaselineEmissions, cost \in BaselineCosts :
        /\ alts' = compute_savings_relative_to_baseline(input, baseline, cost)
        /\ altIn' = AltCall("compute_savings_relative_to_baseline", 0, <<>>, baseline, cost, {}, input)
        /\ AltFrame

NextAlt ==
    \/ GenerateAlternatives
    \/ HandleAlternativeRoutes
    \/ RankAlternativesByEmissions
    \/ ComputeSavingsRelativeToBaseline

SpecAlt == Init /\ [][NextAlt]_vars

(***************************************************************************)
(* Claims about the alternatives engine (SpecAlt)                          *)
(***************************************************************************)
Generated == altIn.op \in {"generate_alternatives", "handle_alternative_routes"}

\* the supported modes whose route resolves and whose handling does not fail
ResolvedModes ==
    {m \in SupportedSet : predict_distance(altIn.direct, m) > 0 /\ m \notin altIn.failing}

ModesOf(alternatives) == {alternatives[i].transport_mode : i \in 1..Len(alternatives)}

\* C7: the list returned by generate_alternatives (and the list the application
\* stores) is non-decreasing in emissions, and its first entry is a resolved
\* mode whose emissions are the lowest among all resolved modes.
C7_SortedByEmissionsLowestFirst ==
    Generated =>
        /\ \A i, j \in 1..Len(alts) :
              i < j => alts[i].co2e_emissions_kg <= alts[j].co2e_emissions_kg
        /\ alts # <<>> =>
              /\ alts[1].transport_mode \in ResolvedModes
              /\ \A m \in ResolvedModes :
                    alts[1].co2e_emissions_kg
                        <= calculate_emissions_by_mode(m, predict_distance(altIn.direct, m), 1)
        /\ ResolvedModes # {} => alts # <<>>

\* a call whose lowest-emission mode is not the first one generated, with a failed mode
C7_Witness ==
    /\ altIn.op = "generate_alternatives"
    /\ Len(alts) = 3
    /\ altIn.failing = {"Train"}
    /\ alts[1].transport_mode = "Bus"
    /\ alts[3].transport_mode = "Flight"

\* C8: two alternatives of a returned list with equal emissions are ordered by
\* lower cost first and, at equal cost, by lower duration first.
C8_TiesBrokenByCostThenDuration ==
    (Generated \/ altIn.op = "rank_alternatives_by_emissions") =>
        \A i, j \in 1..Len(alts) :
            (i < j /\ alts[i].co2e_emissions_kg = alts[j].co2e_emissions_kg) =>
                \/ alts[i].estimated_cost_inr < alts[j].estimated_cost_inr
                \/ /\ alts[i].estimated_cost_inr = alts[j].estimated_cost_inr
                   /\ alts[i].duration_hours <= alts[j].duration_hours

\* C9: every alternative produced carries cost_difference = cost - baseline cost:
\* the alternatives of one generated list agree on the baseline cost they were
\* compared with, and the savings computation uses the baseline cost it was
\* given and leaves every other field of its input as it was.
C9_CostDifferenceIsCostMinusBaseline ==
    /\ Generated =>
          \A i, j \in 1..Len(alts) :
              alts[i].estimated_cost_inr - alts[i].cost_difference_inr
                  = alts[j].estimated_cost_inr - alts[j].cost_difference_inr
    /\ altIn.op = "compute_savings_relative_to_baseline" =>
          /\ Len(alts) = Len(altIn.input)
          /\ \A i \in 1..Len(alts) :
                /\ alts[i].cost_difference_inr
                       = alts[i].estimated_cost_inr - altIn.baseline_cost
                /\ [alts[i] EXCEPT !.cost_difference_inr = 0, !.emissions_savings_kg = 0]
                       = [altIn.input[i] EXCEPT !.cost_difference_inr = 0,
                                                !.emissions_savings_kg = 0]

\* C10: whatever modes the user selected, generate_alternatives returns exactly
\* one entry for each supported mode whose route resolves and whose handling
\* does not fail, and no other entry; a failing mode is only omitted.
C10_OneEntryPerResolvedMode ==
    Generated =>
        /\ ModesOf(alts) = ResolvedModes
        /\ Len(alts) = Cardinality(ResolvedModes)

\* the user selected Car only, one mode failed, the other three are returned
C10_Witness ==
    /\ altIn.op = "generate_alternatives"
    /\ altIn.selected_modes = <<"Car">>
    /\ altIn.failing = {"Bus"}
    /\ altIn.direct > 0
    /\ ModesOf(alts) = {"Flight", "Train", "Car"}

(***************************************************************************)
(* Cost estimation (route_analyzer.py): RouteAnalyzer.estimate_costs and   *)
(* CostEstimator.estimate_detailed_costs.  Rates are tenths of INR per km, *)
(* unrounded costs thousandths of INR, rounded costs paise.                *)
(***************************************************************************)
\* detailed_cost_factors[mode] without base_cost, in insertion order
ModeCostKeys(mode) ==
    CASE mode = "Flight" -> <<"economy", "business">>
      [] mode = "Train"  -> <<"sleeper", "ac_3tier", "ac_2tier", "ac_1tier">>
      [] mode = "Car"    -> <<"petrol", "diesel", "electric">>
      [] mode = "Bus"    -> <<"ordinary", "ac", "volvo">>
      [] OTHER           -> <<>>

DetailedRate10(key) ==
    CASE key = "economy"  -> 60
      [] key = "business" -> 120
      [] key = "sleeper"  -> 8
      [] key = "ac_3tier" -> 12
      [] key = "ac_2tier" -> 18
      [] key = "ac_1tier" -> 25
      [] key = "petrol"   -> 55
      [] key = "diesel"   -> 48
      [] key = "electric" -> 20
      [] key = "ordinary" -> 15
      [] key = "ac"       -> 25
      [] key = "volvo"    -> 35
      [] OTHER            -> 0

\* class_mapping.get(mode, {}).get(service_class, 'standard')
ClassMapping(mode, service_class) ==
    CASE mode = "Flight" /\ service_class = "standard" -> "economy"
      [] mode = "Flight" /\ service_class = "premium"  -> "business"
      [] mode = "Train"  /\ service_class = "standard" -> "ac_3tier"
      [] mode = "Train"  /\ service_class = "premium"  -> "ac_1tier"
      [] mode = "Train"  /\ service_class = "budget"   -> "sleeper"
      [] mode = "Car"    /\ service_class = "standard" -> "petrol"
      [] mode = "Car"    /\ service_class = "premium"  -> "petrol"
      [] mode = "Car"    /\ service_class = "budget"   -> "diesel"
      [] mode = "Bus"    /\ service_class = "standard" -> "ac"
      [] mode = "Bus"    /\ service_class = "premium"  -> "volvo"
      [] mode = "Bus"    /\ service_class = "budget"   -> "ordinary"
      [] OTHER -> "standard"

\* the per-km rate chosen for a service class: the mapped key when the mode has
\* it, otherwise the first rate of the mode's table
CostPerKm10(mode, service_class) ==
    LET cost_key == ClassMapping(mode, service_class)
    IN  IF cost_key \in Range(ModeCostKeys(mode)) THEN DetailedRate10(cost_key)
        ELSE DetailedRate10(Head(ModeCostKeys(mode)))

ZeroCosts == [total |-> 0, per_person |-> 0, base_cost |-> 0, distance_cost |-> 0]

\* CostEstimator.estimate_detailed_costs(mode, distance_km, num_travelers, service_class)
estimate_detailed_costs(mode, distance_ckm, num_travelers, service_class) ==
    IF ModeCostKeys(mode) = <<>> THEN ZeroCosts
    ELSE LET cost_per_km == CostPerKm10(mode, service_class)
             base_cost == BaseCost(mode) * 1000
             distance_cost == distance_ckm * cost_per_km
             cost_per_person == base_cost + distance_cost
         IN  [total |-> RoundHalfEven(cost_per_person * num_travelers, 10),
              per_person |-> RoundHalfEven(cost_per_person, 10),
              base_cost |-> RoundHalfEven(base_cost * num_travelers, 10),
              distance_cost |-> RoundHalfEven(distance_cost * num_travelers, 10)]

(***************************************************************************)
(* Specification SpecCost: one call of a cost estimator on arguments drawn *)
(* from bounded sets.  Neither estimator validates its arguments.          *)
(***************************************************************************)
CostModes == SupportedSet \cup {"Boat"}
\* centi-km; the values put no rounding of the floating-point code on an exact tie
CostDistances == {0 - 1000, 0, 8, 28000, 240000}
CostTravelers == 1..MaxSmallTravelers
ServiceClasses == {"standard", "premium", "budget", "luxury"}

CostCall(op, mode, distance_ckm, num_travelers, service_class, result) ==
    [op |-> op, mode |-> mode, distance_km |-> distance_ckm,
     num_travelers |-> num_travelers, service_class |-> service_class, result |-> result]

FnFrame == UNCHANGED <<lists, errRef, last, held, calls, pc, job, alts, altIn, opt, api, geo, sess, rate, app>>

EstimateCosts ==
    /\ fn.op = "none"
    /\ \E mode \in CostModes, d \in CostDistances, n \in CostTravelers :
        fn' = CostCall("estimate_costs", mode, d, n, "standard",
                       [ZeroCosts EXCEPT !.total = RoundHalfEven(estimate_costs(mode, d, n), 10)])
    /\ FnFrame

EstimateDetailedCosts ==
    /\ fn.op = "none"
    /\ \E mode \in CostModes, d \in CostDistances, n \in CostTravelers, c \in ServiceClasses :
        fn' = CostCall("estimate_detailed_costs", mode, d, n, c,
                       estimate_detailed_costs(mode, d, n, c))
    /\ FnFrame

NextCost == EstimateCosts \/ EstimateDetailedCosts

SpecCost == Init /\ [][NextCost]_vars

CostCalled == fn.op \in {"estimate_costs", "estimate_detailed_costs"}

\* C11: every distance, duration, cost and emissions value of a returned result
\* is >= 0: the fields of an EmissionsResult, of every alternative, and of every
\* cost estimate, for all arguments the operations accept.
C11_NoNegativeValueInAnyResult ==
    /\ last.result.total_co2e_kg >= 0
    /\ last.result.accommodation_emissions >= 0
    /\ last.result.per_person_emissions >= 0
    /\ \A m \in DOMAIN last.result.transport_emissions :
          last.result.transport_emissions[m] >= 0
    /\ \A i \in 1..Len(alts) :
          /\ alts[i].distance_km >= 0
          /\ alts[i].duration_hours >= 0
          /\ alts[i].co2e_emissions_kg >= 0
          /\ alts[i].estimated_cost_inr >= 0
    /\ CostCalled =>
          /\ fn.result.total >= 0
          /\ fn.result.per_person >= 0
          /\ fn.result.base_cost >= 0
          /\ fn.result.distance_cost >= 0

\* C19: a service class the cost model does not know costs the same as 'standard',
\* for every mode, distance and traveler count.
C19_UnknownClassCostsAsStandard ==
    (fn.op = "estimate_detailed_costs" /\ fn.service_class = "luxury") =>
        fn.result = estimate_detailed_costs(fn.mode, fn.distance_km, fn.num_travelers, "standard")

(***************************************************************************)
(* GeographicDataManager and RouteOptimizer (geographic_data.py,           *)
(* route_optimizer.py).  The catalog is restricted to seven of its cities; *)
(* Tiruppur is a curated waypoint the catalog does not contain, Atlantis a *)
(* name nobody knows.  Distances are geodesic distances in centi-km.       *)
(***************************************************************************)
CatalogCities == {"Chennai", "Coimbatore", "Salem", "Erode", "Vellore", "Pondicherry", "Puducherry"}

\* geodesic(coords(a), coords(b)).kilometers for two catalog cities
Geodesic(a, b) ==
    LET pair == {a, b}
    IN  CASE pair = {"Chennai", "Coimbatore"} -> 42718
          [] pair = {"Chennai", "Salem"} -> 27930
          [] pair = {"Chennai", "Erode"} -> 33812
          [] pair = {"Chennai", "Vellore"} -> 12484
          [] pair = {"Chennai", "Pondicherry"} -> 13587
          [] pair = {"Chennai", "Puducherry"} -> 13587
          [] pair = {"Coimbatore", "Salem"} -> 14836
          [] pair = {"Coimbatore", "Erode"} -> 9056
          [] pair = {"Coimbatore", "Vellore"} -> 31680
          [] pair = {"Coimbatore", "Pondicherry"} -> 32761
          [] pair = {"Coimbatore", "Puducherry"} -> 32761
          [] pair = {"Salem", "Erode"} -> 5889
          [] pair = {"Salem", "Vellore"} -> 17523
          [] pair = {"Salem", "Pondicherry"} -> 18374
          [] pair = {"Salem", "Puducherry"} -> 18374
          [] pair = {"Erode", "Vellore"} -> 23261
          [] pair = {"Erode", "Pondicherry"} -> 23750
          [] pair = {"Erode", "Puducherry"} -> 23750
          [] pair = {"Vellore", "Pondicherry"} -> 13050
          [] pair = {"Vellore", "Puducherry"} -> 13050
          [] OTHER -> 0

NoDistance == 0 - 1     \* stands for None

\* calculate_geodesic_distance: None when a city has no coordinates
calculate_geodesic_distance(origin, destination) ==
    IF origin \in CatalogCities /\ destination \in CatalogCities
    THEN Geodesic(origin, destination)
    ELSE NoDistance

\* route_waypoints.get((origin, destination)); <<>> when the pair is no key
RouteWaypoints(origin, destination) ==
    LET key == <<origin, destination>>
    IN  CASE key = <<"Chennai", "Coimbatore">> -> <<"Vellore", "Salem", "Erode", "Tiruppur">>
          [] key = <<"Coimbatore", "Chennai">> -> <<"Tiruppur", "Erode", "Salem", "Vellore">>
          [] key = <<"Bangalore", "Chennai">> -> <<"Vellore", "Kanchipuram", "Tiruvallur">>
          [] key = <<"Chennai", "Bangalore">> -> <<"Tiruvallur", "Kanchipuram", "Vellore">>
          [] key = <<"Delhi", "Mumbai">> -> <<"Jaipur", "Ajmer", "Ahmedabad", "Vadodara">>
          [] key = <<"Mumbai", "Delhi">> -> <<"Vadodara", "Ahmedabad", "Ajmer", "Jaipur">>
          [] key = <<"Chennai", "Madurai">> -> <<"Vellore", "Salem", "Tiruchirappalli">>
          [] key = <<"Madurai", "Chennai">> -> <<"Tiruchirappalli", "Salem", "Vellore">>
          [] key = <<"Salem", "Coimbatore">> -> <<"Erode", "Tiruppur">>
          [] key = <<"Coimbatore", "Salem">> -> <<"Tiruppur", "Erode">>
          [] OTHER -> <<>>

\* shortcut_routes.get((origin, destination)) in insertion order; <<>> when no key
ShortcutRoutes(origin, destination) ==
    LET key == <<origin, destination>>
    IN  CASE key = <<"Chennai", "Coimbatore">> ->
                <<[id |-> "shortcut_via_salem", waypoints |-> <<"Salem">>],
                  [id |-> "direct", waypoints |-> <<>>],
                  [id |-> "scenic_via_vellore", waypoints |-> <<"Vellore", "Salem">>]>>
          [] key = <<"Coimbatore", "Chennai">> ->
                <<[id |-> "shortcut_via_salem", waypoints |-> <<"Salem">>],
                  [id |-> "direct", waypoints |-> <<>>],
                  [id |-> "scenic_via_vellore", waypoints |-> <<"Salem", "Vellore">>]>>
          [] OTHER -> <<>>

\* _calculate_intermediate_cities(origin, destination, 3): the result of the
\* bounding-box and deviation selection over the whole catalog, tabulated for
\* the pairs without curated waypoints that are explored; [] when a city is
\* unknown or no city lies between the two
CalculateIntermediateCities(origin, destination) ==
    LET key == <<origin, destination>>
    IN  IF origin \notin CatalogCities \/ destination \notin CatalogCities THEN <<>>
        ELSE CASE key = <<"Chennai", "Salem">> -> <<"Vellore", "Pondicherry", "Puducherry">>
               [] key = <<"Chennai", "Pondicherry">> -> <<"Puducherry", "Puducherry", "Puducherry">>
               [] key = <<"Erode", "Pondicherry">> -> <<"Salem", "Puducherry", "Puducherry">>
               [] OTHER -> <<>>

Prefix(s, n) == SubSeq(s, 1, Min2(Len(s), n))

MaxWaypoints == 3       \* find_intermediate_cities(..., max_waypoints=3)

\* find_intermediate_cities(origin, destination, max_waypoints=3)
find_intermediate_cities(origin, destination) ==
    IF RouteWaypoints(origin, destination) # <<>>
    THEN Prefix(RouteWaypoints(origin, destination), MaxWaypoints)
    ELSE IF RouteWaypoints(destination, origin) # <<>>
    THEN Reverse(Prefix(RouteWaypoints(destination, origin), MaxWaypoints))
    ELSE CalculateIntermediateCities(origin, destination)

RouteVariant(route_id, waypoints, is_direct, is_shortcut) ==
    [route_id |-> route_id, waypoints |-> waypoints,
     is_direct |-> is_direct, is_shortcut |-> is_shortcut]

RECURSIVE ShortcutVariants(_)
\* the loop over shortcuts.items(): every entry with waypoints becomes a variant
ShortcutVariants(shortcuts) ==
    IF shortcuts = <<>> THEN <<>>
    ELSE (IF Head(shortcuts).waypoints # <<>>
          THEN <<RouteVariant(Head(shortcuts).id, Head(shortcuts).waypoints, FALSE, TRUE)>>
          ELSE <<>>)
         \o ShortcutVariants(Tail(shortcuts))

\* if not any(r['waypoints'] == waypoints for r in alternate_routes): append
AppendUnlessPresent(routes, route_id, waypoints) ==
    IF \E i \in 1..Len(routes) : routes[i].waypoints = waypoints THEN routes
    ELSE Append(routes, RouteVariant(route_id, waypoints, FALSE, FALSE))

\* the curated shortcuts sorted in front of the direct route
RoutePriorityShortcutsFirst(route_id) ==
    CASE route_id = "direct"     -> 2
      [] route_id = "via_middle" -> 3
      [] route_id = "via_first"  -> 4
      [] route_id = "via_last"   -> 5
      [] route_id = "via_all"    -> 6
      [] OTHER                   -> 1

\* route_priority.get(route_id, 10)
RoutePriority(route_id) ==
    CASE route_id = "shortcut"   -> 1
      [] route_id = "direct"     -> 2
      [] route_id = "via_middle" -> 3
      [] route_id = "via_first"  -> 4
      [] route_id = "via_last"   -> 5
      [] route_id = "via_all"    -> 6
      [] OTHER                   -> 10

RECURSIVE InsertByPriority(_, _)
InsertByPriority(x, s) ==
    IF s = <<>> THEN <<x>>
    ELSE IF RoutePriority(Head(s).route_id) <= RoutePriority(x.route_id)
         THEN <<Head(s)>> \o InsertByPriority(x, Tail(s))
         ELSE <<x>> \o s

RECURSIVE SortByPriorityFrom(_, _)
SortByPriorityFrom(sorted, rest) ==
    IF rest = <<>> THEN sorted
    ELSE SortByPriorityFrom(InsertByPriority(Head(rest), sorted), Tail(rest))

\* alternate_routes.sort(key=lambda x: route_priority.get(x['route_id'], 10))
SortByPriority(routes) == SortByPriorityFrom(<<>>, routes)

\* the candidate variants of generate_alternate_routes in the order they are built
CandidateRoutes(origin, destination) ==
    LET with_shortcuts ==
            <<RouteVariant("direct", <<>>, TRUE, FALSE)>>
                \o ShortcutVariants(ShortcutRoutes(origin, destination))
        intermediate_cities == find_intermediate_cities(origin, destination)
        n == Len(intermediate_cities)
        with_middle == AppendUnlessPresent(with_shortcuts, "via_middle",
                                           <<intermediate_cities[(n \div 2) + 1]>>)
        with_first == AppendUnlessPresent(with_middle, "via_first", <<intermediate_cities[1]>>)
        with_last == IF n >= 2
                     THEN AppendUnlessPresent(with_first, "via_last", <<intermediate_cities[n]>>)
                     ELSE with_first
        with_all == IF n >= 2
                    THEN AppendUnlessPresent(with_last, "via_all", intermediate_cities)
                    ELSE with_last
    IN  IF n = 0 THEN with_shortcuts ELSE with_all

\* generate_alternate_routes(origin, destination, num_routes), num_routes >= 0
generate_alternate_routes(origin, destination, num_routes) ==
    Prefix(SortByPriority(CandidateRoutes(origin, destination)), num_routes)

\* what one segment adds to total_distance: its geodesic distance, or, when that
\* is None or 0.0, the distance between the coordinates of its two ends, and
\* nothing when one of them has no coordinates
SegmentContribution(a, b) ==
    LET segment_distance == calculate_geodesic_distance(a, b)
    IN  IF segment_distance # NoDistance /\ segment_distance # 0 THEN segment_distance
        ELSE IF a \in CatalogCities /\ b \in CatalogCities THEN Geodesic(a, b)
        ELSE 0

RECURSIVE RouteLength(_)
\* the loop of calculate_route_distance over the segments of route_path
RouteLength(route_path) ==
    IF Len(route_path) < 2 THEN 0
    ELSE SegmentContribution(route_path[1], route_path[2]) + RouteLength(Tail(route_path))

\* calculate_route_distance(origin, destination, waypoints)
calculate_route_distance(origin, destination, waypoints) ==
    RouteLength(<<origin>> \o waypoints \o <<destination>>)

(***************************************************************************)
(* render_route_map (ui_components.py): the details computed per variant   *)
(***************************************************************************)
MapRoutes == 5          \* generate_alternate_routes(origin, destination, num_routes=5)

RECURSIVE MapDetails(_, _, _, _)
\* the loop over alternate_routes; direct_distance is NoDistance until the
\* first variant without waypoints has been measured
MapDetails(routes, origin, destination, direct_distance) ==
    IF routes = <<>> THEN <<>>
    ELSE LET route == Head(routes)
             route_distance == calculate_route_distance(origin, destination, route.waypoints)
             direct == IF direct_distance = NoDistance /\ route.waypoints = <<>>
                       THEN route_distance ELSE direct_distance
             is_shortcut == /\ direct # NoDistance
                            /\ direct # 0
                            /\ route_distance * 100 < direct * 98
         IN  <<[route_id |-> route.route_id, waypoints |-> route.waypoints,
                distance_km |-> route_distance, is_shortcut |-> is_shortcut,
                distance_savings |-> IF is_shortcut THEN direct - route_distance ELSE 0]>>
             \o MapDetails(Tail(routes), origin, destination, direct)

RECURSIVE InsertByDistance(_, _)
InsertByDistance(x, s) ==
    IF s = <<>> THEN <<x>>
    ELSE IF Head(s).distance_km <= x.distance_km
         THEN <<Head(s)>> \o InsertByDistance(x, Tail(s))
         ELSE <<x>> \o s

RECURSIVE SortByDistanceFrom(_, _)
SortByDistanceFrom(sorted, rest) ==
    IF rest = <<>> THEN sorted
    ELSE SortByDistanceFrom(InsertByDistance(Head(rest), sorted), Tail(rest))

\* the route details of render_route_map, sorted by distance; none when the
\* origin or the destination has no coordinates
render_route_map(origin, destination) ==
    IF origin \notin CatalogCities \/ destination \notin CatalogCities THEN <<>>
    ELSE SortByDistanceFrom(<<>>,
            MapDetails(generate_alternate_routes(origin, destination, MapRoutes),
                       origin, destination, NoDistance))

(***************************************************************************)
(* Specification SpecOpt: one call of a RouteOptimizer operation or of the *)
(* route map on arguments drawn from bounded sets.                         *)
(***************************************************************************)
MaxRoutes == 7

RoutePairs ==
    { <<"Chennai", "Coimbatore">>, <<"Coimbatore", "Chennai">>,
      <<"Salem", "Coimbatore">>, <<"Coimbatore", "Salem">>,
      <<"Chennai", "Salem">>, <<"Salem", "Erode">>, <<"Salem", "Salem">>,
      <<"Chennai", "Pondicherry">>, <<"Erode", "Pondicherry">>,
      <<"Atlantis", "Salem">>, <<"Salem", "Atlantis">> }

WaypointLists ==
    { <<>>, <<"Salem">>, <<"Tiruppur">>, <<"Erode", "Tiruppur">>, <<"Vellore", "Salem">>,
      <<"Puducherry", "Puducherry", "Puducherry">> }

OptCall(op, origin, destination, num_routes, waypoints, result) ==
    [op |-> op, origin |-> origin, destination |-> destination,
     num_routes |-> num_routes, waypoints |-> waypoints, result |-> result]

OptFrame == UNCHANGED <<lists, errRef, last, held, calls, pc, job, alts, altIn, fn, api, geo, sess, rate, app>>

GenerateAlternateRoutes ==
    /\ opt.op = "none"
    /\ \E pair \in RoutePairs, num_routes \in 0..MaxRoutes :
        opt' = OptCall("generate_alternate_routes", pair[1], pair[2], num_routes, <<>>,
                       generate_alternate_routes(pair[1], pair[2], num_routes))
    /\ OptFrame

CalculateRouteDistance ==
    /\ opt.op = "none"
    /\ \E pair \in RoutePairs, waypoints \in WaypointLists :
        opt' = OptCall("calculate_route_distance", pair[1], pair[2], 0, waypoints,
                       calculate_route_distance(pair[1], pair[2], waypoints))
    /\ OptFrame

RenderRouteMap ==
    /\ opt.op = "none"
    /\ \E pair \in RoutePairs :
        opt' = OptCall("render_route_map", pair[1], pair[2], MapRoutes, <<>>,
                       render_route_map(pair[1], pair[2]))
    /\ OptFrame

NextOpt == GenerateAlternateRoutes \/ CalculateRouteDistance \/ RenderRouteMap

SpecOpt == Init /\ [][NextOpt]_vars

(***************************************************************************)
(* Claims about the route optimizer (SpecOpt)                              *)
(***************************************************************************)
GeneratedRoutes == opt.op = "generate_alternate_routes"

\* the rank the truncation order gives a variant: curated shortcuts, direct,
\* middle, first, last, scenic
TruncationRank(route) ==
    CASE route.is_shortcut             -> 1
      [] route.route_id = "direct"     -> 2
      [] route.route_id = "via_middle" -> 3
      [] route.route_id = "via_first"  -> 4
      [] route.route_id = "via_last"   -> 5
      [] OTHER                         -> 6

\* C12: the list generate_alternate_routes returns keeps the order curated
\* shortcuts, direct, middle, first, last, scenic, and no candidate is dropped
\* while a candidate of lower priority is kept.
C12_TruncationKeepsPriorityOrder ==
    GeneratedRoutes =>
        LET candidates == CandidateRoutes(opt.origin, opt.destination)
        IN  /\ \A i, j \in 1..Len(opt.result) :
                  i < j => TruncationRank(opt.result[i]) <= TruncationRank(opt.result[j])
            /\ \A c \in Range(candidates) :
                  c \notin Range(opt.result) =>
                      \A r \in Range(opt.result) : TruncationRank(r) <= TruncationRank(c)

HasDirect(routes) ==
    \E i \in 1..Len(routes) : routes[i].waypoints = <<>> /\ routes[i].is_direct

ShorterThanDirect(distance, origin, destination) ==
    distance * 100 < calculate_route_distance(origin, destination, <<>>) * 98

\* C14: a variant is flagged is_shortcut exactly when its total distance is
\* below 0.98 times the distance of the direct variant, in the list of
\* generate_alternate_routes and in the details of the route map.
C14_ShortcutFlagFollowsDistance ==
    /\ GeneratedRoutes =>
          \A r \in Range(opt.result) :
              r.is_shortcut <=>
                  ShorterThanDirect(calculate_route_distance(opt.origin, opt.destination, r.waypoints),
                                    opt.origin, opt.destination)
    /\ opt.op = "render_route_map" =>
          \A r \in Range(opt.result) :
              r.is_shortcut <=> ShorterThanDirect(r.distance_km, opt.origin, opt.destination)

\* C15: calculate_route_distance adds up all consecutive segments of
\* [origin] + waypoints + [destination], and a segment the catalog cannot
\* resolve still contributes a distance, never 0.
C15_UnresolvedSegmentNeverZero ==
    opt.op = "calculate_route_distance" =>
        LET route_path == <<opt.origin>> \o opt.waypoints \o <<opt.destination>>
        IN  /\ opt.result = SumOver([i \in 1..(Len(route_path) - 1) |->
                                        SegmentContribution(route_path[i], route_path[i + 1])],
                                    1..(Len(route_path) - 1))
            /\ \A i \in 1..(Len(route_path) - 1) :
                  calculate_geodesic_distance(route_path[i], route_path[i + 1]) = NoDistance
                      => SegmentContribution(route_path[i], route_path[i + 1]) > 0

(***************************************************************************)
(* APIClientManager (api_client.py): query_climatiq_api and                *)
(* query_google_maps_api.  The provider's answers to the successive        *)
(* requests of a call are a script fixed when the call starts.             *)
(***************************************************************************)
MaxRetries == 3

Services == {"query_climatiq_api", "query_google_maps_api"}

\* climatiq_rate_limit, google_maps_rate_limit (requests per minute)
RateLimit(service) == IF service = "query_climatiq_api" THEN 60 ELSE 100

\* what the provider can do with one request: answer 2xx with a payload, time
\* out, refuse the connection, answer 429, 401, 403, 404, 5xx or another 4xx,
\* answer 2xx with a body that is no JSON, or (Google Maps) answer 2xx with a
\* status such as REQUEST_DENIED
Outcomes(service) ==
    {"ok", "timeout", "connection_error", "rate_limited", "unauthorized", "forbidden",
     "not_found", "server_error", "client_error", "malformed"}
    \cup (IF service = "query_google_maps_api" THEN {"denied"} ELSE {})

\* responses that count for the rate-limit tracking: every request that got a response
GotResponse(outcome) == outcome \notin {"timeout", "connection_error"}

AuthFailureOnly401(outcome) == outcome = "unauthorized"

\* status_code == 401 or status_code == 403
AuthFailure(outcome) == outcome \in {"unauthorized", "forbidden"}

\* a body that is no JSON escapes the handlers
DecideMalformedRaises(service, outcome) ==
    CASE outcome = "ok" -> {"payload"}
      [] AuthFailure(outcome) -> {"none"}
      [] outcome = "not_found" /\ service = "query_climatiq_api" -> {"none"}
      [] outcome = "denied" -> {"none"}
      [] outcome = "malformed" -> {"raise"}
      [] OTHER -> {"retry"}

\* what the loop body does with an outcome: return the payload, return None, or
\* take the retry branch.  response.json() on a body that is no JSON raises
\* ValueError (caught by except Exception: return None) or, with newer versions
\* of requests, a RequestException (retried)
Decide(service, outcome) ==
    CASE outcome = "ok" -> {"payload"}
      [] AuthFailure(outcome) -> {"none"}
      [] outcome = "not_found" /\ service = "query_climatiq_api" -> {"none"}
      [] outcome = "denied" -> {"none"}
      [] outcome = "malformed" -> {"retry", "none"}
      [] OTHER -> {"retry"}

MayRetryOneLess(attempt, max_retries) == attempt < max_retries - 2

\* if attempt < max_retries - 1: sleep and continue, else return None
MayRetry(attempt, max_retries) == attempt < max_retries - 1

ApiFrame == UNCHANGED <<lists, errRef, last, held, calls, pc, job, alts, altIn, fn, opt, geo, sess, rate, app>>

\* the call up to the for-loop: no API key or a used-up rate limit returns None
ApiBegin ==
    /\ api.pc = "idle"
    /\ \E service \in Services, has_key \in BOOLEAN, max_retries \in 0..MaxRetries :
       \E request_count \in {0, RateLimit(service)} :
        IF ~has_key \/ request_count >= RateLimit(service)
        THEN api' = [api EXCEPT !.op = service, !.has_key = has_key,
                                !.request_count = request_count,
                                !.max_retries = max_retries,
                                !.pc = "done", !.result = "None"]
        ELSE \E script \in [1..max_retries -> Outcomes(service)] :
                api' = [api EXCEPT !.op = service, !.has_key = has_key,
                                   !.request_count = request_count,
                                   !.max_retries = max_retries, !.script = script,
                                   !.pc = "attempt"]
    /\ ApiFrame

\* one iteration of for attempt in range(max_retries)
ApiAttempt ==
    /\ api.pc = "attempt"
    /\ api.attempt < api.max_retries
    /\ LET outcome == api.script[api.attempt + 1]
           sentOne == [api EXCEPT !.sent = @ + 1, !.last = outcome,
                                  !.request_count = IF GotResponse(outcome) THEN @ + 1 ELSE @]
       IN  \E decision \in Decide(api.op, outcome) :
              api' = CASE decision = "payload" ->
                            [sentOne EXCEPT !.pc = "done", !.result = "payload"]
                       [] decision = "raise" ->
                            [sentOne EXCEPT !.pc = "done", !.result = "raised"]
                       [] decision = "retry" /\ MayRetry(api.attempt, api.max_retries) ->
                            [sentOne EXCEPT !.attempt = @ + 1]
                       [] OTHER ->
                            [sentOne EXCEPT !.pc = "done", !.result = "None"]
    /\ ApiFrame

\* the loop ran out without a return: return None
ApiLoopEnd ==
    /\ api.pc = "attempt"
    /\ api.attempt >= api.max_retries
    /\ api' = [api EXCEPT !.pc = "done", !.result = "None"]
    /\ ApiFrame

NextApi == ApiBegin \/ ApiAttempt \/ ApiLoopEnd

SpecApi == Init /\ [][NextApi]_vars

\* every request carries timeout=10 and every sleep is finite, so a started
\* call takes its next step
SpecApiLive == SpecApi /\ WF_vars(ApiAttempt) /\ WF_vars(ApiLoopEnd)

(***************************************************************************)
(* Claims about the API client (SpecApi, SpecApiLive)                      *)
(***************************************************************************)
ApiDone == api.pc = "done"

\* C16: for max_retries >= 1 and any sequence of provider outcomes, a call
\* sends at most max_retries requests, terminates, and returns the payload or
\* None; it never raises.
C16_BoundedRequestsThenReturns ==
    /\ [](api.max_retries >= 1 => api.sent <= api.max_retries)
    /\ []((api.max_retries >= 1 /\ ApiDone) => api.result \in {"payload", "None"})
    /\ ((api.pc = "attempt" /\ api.max_retries >= 1) ~> ApiDone)

\* a call that used up all its attempts on timeouts
C16_Witness ==
    /\ ApiDone
    /\ api.max_retries >= 2
    /\ api.sent = api.max_retries
    /\ api.last = "timeout"
    /\ api.result = "None"

\* C17: after an attempt answered with 401 or 403 the call has returned None
\* and sends no further request, however many attempts remain.
C17_AuthErrorReturnsAtOnce ==
    api.last \in {"unauthorized", "forbidden"} =>
        /\ ApiDone
        /\ api.result = "None"
        /\ api.sent = api.attempt + 1

\* a 403 on the first attempt of a call that had more attempts left
C17_Witness ==
    /\ api.last = "forbidden"
    /\ api.sent = 1
    /\ api.max_retries >= 2
    /\ ApiDone

Transient(outcome) ==
    outcome \in {"timeout", "connection_error", "rate_limited", "server_error"}

\* the provider fails transiently on the first k attempts and succeeds on attempt k+1 <= max_retries
SucceedsAfterTransient ==
    \E k \in 0..(api.max_retries - 1) :
        /\ \A i \in 1..k : Transient(api.script[i])
        /\ api.script[k + 1] = "ok"

MaxFormTravelers == 20

\* validate_form_data: is_valid, i.e. no error was collected
FormValid(trip, today) ==
    /\ trip.origin_city # "" /\ trip.destination_city # ""
    /\ trip.travel_modes # <<>>
    /\ trip.num_travelers >= 1 /\ trip.num_travelers <= MaxFormTravelers
    /\ trip.hotel_nights >= 0 /\ trip.hotel_nights <= MaxHotelNights
    /\ \A i \in 1..Len(trip.travel_modes) : trip.travel_modes[i] \in SupportedSet
    /\ trip.outbound_date >= today
    /\ trip.return_date # NoDate => trip.return_date > trip.outbound_date
    /\ trip.origin_city # trip.destination_city

\* store_trip_data: a complete dictionary is stored when TripData.from_dict can
\* build the object; from_dict parses the dates and checks nothing
StoreAccepts(trip) == TRUE

(***************************************************************************)
(* Specification SpecValid: one trip request handed to one validator       *)
(***************************************************************************)
Today == 2

DatedTrips ==
    { MakeTrip("Delhi", outbound, return, modes, travelers, nights) :
        outbound \in {1, 2, 3}, return \in {NoDate, 1, 2, 3, 4},
        modes \in {<<>>, <<"Flight">>, <<"Train", "Boat">>},
        travelers \in {0, 2, MaxFormTravelers + 1}, nights \in {0, 1} }

ValidDistance == 30000

ValidCall(op, trip, accepted) == [op |-> op, trip |-> trip, accepted |-> accepted]

ValidateTripData ==
    /\ fn.op = "none"
    /\ \E trip \in DatedTrips : fn' = ValidCall("TripData.validate", trip, TripValidate(trip))
    /\ FnFrame

\* distances handed to validate_calculation_inputs, in centi-km
ValidDistances == {0 - 10000, 0 - 100, 0, 10000, ValidDistance}

ValidateCalculatorInputs ==
    /\ fn.op = "none"
    /\ \E trip \in DatedTrips, distance_ckm \in ValidDistances :
        LET r == validate_calculation_inputs(Calc, trip, distance_ckm)
        IN  /\ fn' = [op |-> "validate_calculation_inputs", trip |-> trip,
                      distance_ckm |-> distance_ckm, accepted |-> r.ret]
            /\ lists' = r.h.lists
            /\ errRef' = r.h.errRef
    /\ UNCHANGED <<last, held, calls, pc, job, alts, altIn, opt, api, geo, sess, rate, app>>

ValidateFormData ==
    /\ fn.op = "none"
    /\ \E trip \in DatedTrips :
        fn' = ValidCall("validate_form_data", trip, FormValid(trip, Today))
    /\ FnFrame

StoreTripData ==
    /\ fn.op = "none"
    /\ \E trip \in DatedTrips : fn' = ValidCall("store_trip_data", trip, StoreAccepts(trip))
    /\ FnFrame

NextValid ==
    \/ ValidateTripData
    \/ ValidateCalculatorInputs
    \/ ValidateFormData
    \/ StoreTripData

SpecValid == Init /\ [][NextValid]_vars

Validated ==
    fn.op \in {"TripData.validate", "validate_calculation_inputs",
               "validate_form_data", "store_trip_data"}

\* C20: every trip request accepted as valid that has a return_date has it
\* strictly after outbound_date; a return on the day of departure is rejected.
C20_AcceptedReturnIsStrictlyLater ==
    (Validated /\ fn.accepted /\ fn.trip.return_date # NoDate) =>
        fn.trip.return_date > fn.trip.outbound_date

\* C21: for a valid trip validate_calculation_inputs returns True for a valid
\* positive distance and False for every distance that is zero or negative.
C21_ZeroOrNegativeDistanceRejected ==
    (fn.op = "validate_calculation_inputs" /\ TripValidate(fn.trip)) =>
        (fn.accepted <=> fn.distance_ckm > 0)

(***************************************************************************)
(* GeographicDataManager construction and get_popular_routes               *)
(* (geographic_data.py).  The in-code catalog is restricted to the cities  *)
(* of the popular pairs and of the route optimizer; Hosur is a city only   *)
(* the supplementary dataset can add.                                      *)
(***************************************************************************)
\* self.popular_routes
PopularRoutes ==
    << <<"Salem", "Chennai">>, <<"Delhi", "Mumbai">>, <<"Bangalore", "Chennai">>,
       <<"Delhi", "Goa">>, <<"Mumbai", "Pune">>, <<"Chennai", "Kochi">>,
       <<"Delhi", "Jaipur">>, <<"Mumbai", "Goa">>, <<"Bangalore", "Hyderabad">>,
       <<"Kolkata", "Delhi">> >>

\* the keys of self.indian_cities before the dataset is read
BaseCities ==
    CatalogCities \cup {"Delhi", "Mumbai", "Bangalore", "Goa", "Pune", "Kochi",
                        "Jaipur", "Hyderabad", "Kolkata"}

\* geodesic(...).kilometers of a popular pair, in centi-km
PopularGeodesic(a, b) ==
    LET pair == {a, b}
    IN  CASE pair = {"Salem", "Chennai"} -> 27930
          [] pair = {"Delhi", "Mumbai"} -> 114961
          [] pair = {"Bangalore", "Chennai"} -> 29054
          [] pair = {"Delhi", "Goa"} -> 151568
          [] pair = {"Mumbai", "Pune"} -> 12014
          [] pair = {"Chennai", "Kochi"} -> 55878
          [] pair = {"Delhi", "Jaipur"} -> 23709
          [] pair = {"Mumbai", "Goa"} -> 43849
          [] pair = {"Bangalore", "Hyderabad"} -> 49766
          [] pair = {"Kolkata", "Delhi"} -> 131814
          [] OTHER -> 0

\* (row.get(column) or "").strip()
Strip(field) == IF field = " " THEN "" ELSE field

\* float(text) succeeds
ParsesAsFloat(text) == text \in {"12.74", "77.82"}

\* the body of the for-loop over the rows: the catalog after one row
LoadRow(cities, row) ==
    LET city == Strip(row.city)
        state == Strip(row.state)
        lat_str == Strip(row.latitude)
        lon_str == Strip(row.longitude)
    IN  IF city = "" \/ state = "" \/ lat_str = "" \/ lon_str = "" THEN cities
        ELSE IF ~ParsesAsFloat(lat_str) \/ ~ParsesAsFloat(lon_str) THEN cities
        ELSE cities \cup {city}

RECURSIVE LoadRows(_, _, _)
\* the catalog after the first n rows of the dataset
LoadRows(cities, rows, n) ==
    IF n = 0 THEN cities ELSE LoadRow(LoadRows(cities, rows, n - 1), rows[n])

\* _load_additional_cities_from_csv: the catalog and whether the statement
\* binding self.popular_routes after the try block was reached.  An absent file
\* returns inside the try block, an exception returns inside the handler.
load_additional_cities_from_csv(dataset) ==
    CASE dataset.kind = "absent" ->
            [cities |-> BaseCities, has_popular_routes |-> FALSE]
      [] dataset.kind = "unreadable" ->
            [cities |-> LoadRows(BaseCities, dataset.rows, dataset.fails_after),
             has_popular_routes |-> FALSE]
      [] OTHER ->
            [cities |-> LoadRows(BaseCities, dataset.rows, Len(dataset.rows)),
             has_popular_routes |-> TRUE]

(***************************************************************************)
(* Specification SpecGeo: one catalog is constructed and then queried      *)
(***************************************************************************)
MaxRows == 2

CsvRows ==
    [city : {" ", "Chennai", "Hosur"}, state : {"", "Tamil Nadu"},
     latitude : {"", "12.74", "abc"}, longitude : {"77.82"}]

RowLists == UNION { [1..n -> CsvRows] : n \in 0..MaxRows }

Datasets ==
    {[kind |-> "absent", rows |-> <<>>, fails_after |-> 0]}
    \cup {[kind |-> "present", rows |-> rows, fails_after |-> 0] : rows \in RowLists}
    \cup UNION { {[kind |-> "unreadable", rows |-> rows, fails_after |-> n] :
                    n \in 0..Len(rows)} : rows \in RowLists }

GeoFrame == UNCHANGED <<lists, errRef, last, held, calls, pc, job, alts, altIn, fn, opt, api, sess, rate, app>>

\* GeographicDataManager()
ConstructCatalog ==
    /\ geo.op = "none"
    /\ \E dataset \in Datasets :
        LET loaded == load_additional_cities_from_csv(dataset)
        IN  geo' = [op |-> "__init__", dataset |-> dataset, cities |-> loaded.cities,
                    has_popular_routes |-> loaded.has_popular_routes,
                    raised |-> "none", result |-> <<>>]
    /\ GeoFrame

\* get_popular_routes(): return self.popular_routes
GetPopularRoutes ==
    /\ geo.op = "__init__"
    /\ geo' = IF geo.has_popular_routes
              THEN [geo EXCEPT !.op = "get_popular_routes", !.result = PopularRoutes]
              ELSE [geo EXCEPT !.op = "get_popular_routes", !.raised = "AttributeError"]
    /\ GeoFrame

NextGeo ==
    \/ ConstructCatalog
    \/ GetPopularRoutes

SpecGeo == Init /\ [][NextGeo]_vars

\* C22: after construction, whatever the state of the supplementary dataset,
\* get_popular_routes returns the popular pairs without error, both cities of
\* every pair are in the catalog and the distance between them is above 0.
C22_PopularRoutesAlwaysAvailable ==
    geo.op = "get_popular_routes" =>
        /\ geo.raised = "none"
        /\ geo.result = PopularRoutes
        /\ \A i \in 1..Len(geo.result) :
            /\ geo.result[i][1] \in geo.cities
            /\ geo.result[i][2] \in geo.cities
            /\ PopularGeodesic(geo.result[i][1], geo.result[i][2]) > 0

(***************************************************************************)
(* SessionStateManager operations on st.session_state                      *)
(***************************************************************************)
\* getattr(st.session_state, key, default)
GetAttr(state, key) ==
    IF key \in state.present THEN state.value[key] ELSE DefaultValue[key]

\* setattr(st.session_state, key, v)
SetAttr(state, key, v) ==
    [present |-> state.present \cup {key}, value |-> [state.value EXCEPT ![key] = v]]

initialize_session_Overwrite(state) ==
    [present |-> SessionKeys, value |-> DefaultValue]

\* every key that is not in st.session_state gets its default
initialize_session(state) ==
    [present |-> SessionKeys,
     value |-> [k \in SessionKeys |-> GetAttr(state, k)]]

\* the keys store_trip_data looks for before it tries TripData.from_dict
TripFields ==
    {"origin_city", "destination_city", "outbound_date", "travel_modes",
     "num_travelers", "hotel_nights"}

\* date.fromisoformat(text) succeeds
IsIsoDate(text) == text \in {"2024-01-01", "2024-01-05"}

\* TripData.from_dict(data) raises: data['return_date'] is missing, or a date
\* string does not parse
TripFromDictRaises(data) ==
    \/ "return_date" \notin data.keys
    \/ ~IsIsoDate(data.outbound_date)
    \/ data.return_date # "" /\ ~IsIsoDate(data.return_date)

store_trip_data_Unchecked(state, trip_data) ==
    [state |-> SetAttr(state, "trip_data", trip_data), raised |-> "none"]

store_trip_data(state, trip_data) ==
    IF ~trip_data.is_dict THEN [state |-> state, raised |-> "ValueError"]
    ELSE IF trip_data.keys # {} /\ TripFields \subseteq trip_data.keys
            /\ TripFromDictRaises(trip_data)
    THEN [state |-> state, raised |-> "ValueError"]
    ELSE [state |-> SetAttr(state, "trip_data", trip_data), raised |-> "none"]

\* a failing EmissionsResult.from_dict is logged and the data stored all the same
store_emissions_data(state, emissions_data) ==
    IF ~emissions_data.is_dict THEN [state |-> state, raised |-> "ValueError"]
    ELSE [state |-> SetAttr(state, "emissions_data", emissions_data), raised |-> "none"]

\* the keys store_alternatives_data looks for; AlternativeRoute(**alt_data)
\* raises when alt_data has any further key
AlternativeFields ==
    {"transport_mode", "duration_hours", "distance_km", "co2e_emissions_kg",
     "estimated_cost_inr", "emissions_savings_kg", "cost_difference_inr", "route_details"}

store_alternatives_data(state, alternatives) ==
    IF ~alternatives.is_list THEN [state |-> state, raised |-> "ValueError"]
    ELSE IF \E i \in 1..Len(alternatives.items) :
                LET alt_data == alternatives.items[i]
                IN  \/ ~alt_data.is_dict
                    \/ /\ AlternativeFields \subseteq alt_data.keys
                       /\ alt_data.keys # AlternativeFields
    THEN [state |-> state, raised |-> "ValueError"]
    ELSE [state |-> SetAttr(state, "alternatives_data", alternatives), raised |-> "none"]

set_calculation_status(state, in_progress) ==
    IF ~in_progress.is_bool THEN [state |-> state, raised |-> "ValueError"]
    ELSE [state |-> SetAttr(state, "calculation_in_progress", in_progress), raised |-> "none"]

clear_session(state) ==
    [present |-> state.present \cup SessionKeys, value |-> DefaultValue]

\* the trip input is kept
reset_calculations(state) ==
    [present |-> state.present \cup (SessionKeys \ {"trip_data"}),
     value |-> [DefaultValue EXCEPT !["trip_data"] = state.value["trip_data"]]]

(***************************************************************************)
(* Specification SpecSess: any sequence of at most MaxSessionOps calls on  *)
(* the session.  storedSinceClear[k] is the argument of the last store     *)
(* call for k that returned since the last clear_session, <<>> if none;    *)
(* storedSinceReset[k] is also emptied by a reset_calculations that resets *)
(* k.                                                                      *)
(***************************************************************************)
MaxSessionOps == 4

AllTripKeys == TripFields \cup {"return_date"}

StoreArgs ==
    [trip_data |->
        { TripDict(FALSE, {}, "", "", ""),
          TripDict(TRUE, {}, "", "", ""),
          TripDict(TRUE, {"origin_city"}, "Delhi", "", ""),
          TripDict(TRUE, TripFields, "Delhi", "2024-01-01", ""),
          TripDict(TRUE, AllTripKeys, "Delhi", "2024-01-01", ""),
          TripDict(TRUE, AllTripKeys, "Salem", "2024-01-01", "2024-01-05"),
          TripDict(TRUE, AllTripKeys, "Delhi", "invalid-date", ""),
          TripDict(TRUE, AllTripKeys, "Delhi", "2024-01-01", "invalid-date") },
     emissions_data |->
        { EmissionsDict(FALSE, {}, 0, ""),
          EmissionsDict(TRUE, {}, 0, ""),
          EmissionsDict(TRUE, {"total_co2e_kg", "calculation_timestamp"}, 90125,
                        "2024-01-01T10:00:00"),
          EmissionsDict(TRUE, {"total_co2e_kg", "calculation_timestamp"}, 1500,
                        "not-a-time") },
     alternatives_data |->
        { AlternativesList(FALSE, <<>>),
          AlternativesList(TRUE, <<>>),
          AlternativesList(TRUE, <<[is_dict |-> TRUE, keys |-> AlternativeFields,
                                    transport_mode |-> "Train"]>>),
          AlternativesList(TRUE, <<[is_dict |-> FALSE, keys |-> {},
                                    transport_mode |-> ""]>>),
          AlternativesList(TRUE, <<[is_dict |-> TRUE, keys |-> AlternativeFields,
                                    transport_mode |-> "Bus"],
                                   [is_dict |-> TRUE, keys |-> AlternativeFields \cup {"note"},
                                    transport_mode |-> "Train"]>>) },
     calculation_in_progress |->
        { [is_bool |-> TRUE, value |-> TRUE], [is_bool |-> TRUE, value |-> FALSE],
          [is_bool |-> FALSE, value |-> TRUE] }]

SessFrame ==
    UNCHANGED <<lists, errRef, last, held, calls, pc, job, alts, altIn, fn, opt, api, geo, rate, app>>

\* the store operation of a key
StoreOp(key, state, arg) ==
    CASE key = "trip_data" -> store_trip_data(state, arg)
      [] key = "emissions_data" -> store_emissions_data(state, arg)
      [] key = "alternatives_data" -> store_alternatives_data(state, arg)
      [] OTHER -> set_calculation_status(state, arg)

InitializeSession ==
    /\ sess.ops < MaxSessionOps
    /\ sess' = [sess EXCEPT !.state = initialize_session(sess.state),
                            !.call = [op |-> "initialize_session"],
                            !.ops = @ + 1]
    /\ SessFrame

\* store_trip_data, store_emissions_data, store_alternatives_data, set_calculation_status
Store(key) ==
    /\ sess.ops < MaxSessionOps
    /\ \E arg \in StoreArgs[key] :
        LET r == StoreOp(key, sess.state, arg)
        IN  sess' = [sess EXCEPT
                !.state = r.state,
                !.call = [op |-> "store", key |-> key, arg |-> <<arg>>,
                          raised |-> r.raised, prev |-> sess.state],
                !.storedSinceClear[key] = IF r.raised = "none" THEN <<arg>> ELSE @,
                !.storedSinceReset[key] = IF r.raised = "none" THEN <<arg>> ELSE @,
                !.ops = @ + 1]
    /\ SessFrame

\* get_trip_data, get_emissions_data, get_alternatives_data, is_calculation_in_progress
Get(key) ==
    /\ sess.ops < MaxSessionOps
    /\ sess' = [sess EXCEPT
            !.call = [op |-> "get", key |-> key, ret |-> <<GetAttr(sess.state, key)>>],
            !.ops = @ + 1]
    /\ SessFrame

ClearSession ==
    /\ sess.ops < MaxSessionOps
    /\ sess' = [sess EXCEPT !.state = clear_session(sess.state),
                            !.call = [op |-> "clear_session"],
                            !.storedSinceClear = [k \in SessionKeys |-> <<>>],
                            !.storedSinceReset = [k \in SessionKeys |-> <<>>],
                            !.ops = @ + 1]
    /\ SessFrame

ResetCalculations ==
    /\ sess.ops < MaxSessionOps
    /\ sess' = [sess EXCEPT !.state = reset_calculations(sess.state),
                            !.call = [op |-> "reset_calculations"],
                            !.storedSinceReset =
                                [k \in SessionKeys |-> IF k = "trip_data" THEN @[k] ELSE <<>>],
                            !.ops = @ + 1]
    /\ SessFrame

NextSess ==
    \/ InitializeSession
    \/ Store("trip_data")
    \/ Store("emissions_data")
    \/ Store("alternatives_data")
    \/ Store("calculation_in_progress")
    \/ Get("trip_data")
    \/ Get("emissions_data")
    \/ Get("alternatives_data")
    \/ Get("calculation_in_progress")
    \/ ClearSession
    \/ ResetCalculations

SpecSess == Init /\ [][NextSess]_vars

Expected(stored, key) ==
    IF stored[key] = <<>> THEN DefaultValue[key] ELSE stored[key][1]

\* C24: each getter returns the value most recently stored for its key, or the
\* default ({}, {}, [], False) if nothing was stored for it since the last
\* clear_session; initialize_session never changes a stored value.
C24_GetReturnsLastStoredSinceClear ==
    /\ sess.call.op = "get" =>
        sess.call.ret[1] = Expected(sess.storedSinceClear, sess.call.key)
    /\ sess.call.op = "initialize_session" =>
        \A k \in SessionKeys : GetAttr(sess.state, k) = Expected(sess.storedSinceClear, k)

\* C24 (amended): each getter returns the value most recently stored for its
\* key, or the default if nothing was stored for it since the last
\* clear_session or, for the emissions, the alternatives and the status, since
\* the last reset_calculations; initialize_session never changes a stored value.
C24_GetReturnsLastStoredSinceClearOrReset ==
    /\ sess.call.op = "get" =>
        sess.call.ret[1] = Expected(sess.storedSinceReset, sess.call.key)
    /\ sess.call.op = "initialize_session" =>
        \A k \in SessionKeys : GetAttr(sess.state, k) = Expected(sess.storedSinceReset, k)

\* emissions were stored, reset_calculations ran, and get_emissions_data is asked
C24_Witness ==
    /\ sess.call.op = "get" /\ sess.call.key = "emissions_data"
    /\ sess.storedSinceClear["emissions_data"] # <<>>
    /\ sess.storedSinceReset["emissions_data"] = <<>>
    /\ sess.storedSinceReset["trip_data"] # <<>>

(***************************************************************************)
(* Rounding of an aggregation, checked under Spec                          *)
(***************************************************************************)
\* distance_km * emission_factor * num_travelers of the modes in the result plus
\* the accommodation emissions, none of them rounded: in 1e-6 kg
UnroundedTotal(result, trip, distance_ckm) ==
    SumOver([m \in DOMAIN result.transport_emissions |->
                distance_ckm * predict_emission_factor(m, distance_ckm, trip.num_travelers)
                    * trip.num_travelers],
            DOMAIN result.transport_emissions)
    + (IF result.accommodation_emissions > 0
       THEN 1000 * predict_accommodation_emissions(trip.hotel_nights, trip.num_travelers)
       ELSE 0)

\* the unrounded total of the request stays within the integers of the model
FitsUnrounded(trip, distance_ckm) ==
    /\ trip.num_travelers * distance_ckm <= 100000
    /\ trip.num_travelers * trip.hotel_nights <= 20

\* C25: total_kg and per_person_kg are the rounding to 3 decimals of the
\* unrounded sum of the per-mode and accommodation emissions; no per-mode or
\* accommodation value is rounded before it is accumulated.
C25_RoundedOnceAtTheBoundary ==
    (Returned /\ ~IsZeroResult(last.result) /\ FitsUnrounded(last.trip, last.distance_km)) =>
        LET exact == UnroundedTotal(last.result, last.trip, last.distance_km)
        IN  /\ last.result.total_co2e_kg = RoundHalfEven(exact, 1000)
            /\ last.result.per_person_emissions =
                    RoundHalfEven(exact, 1000 * Max2(1, last.trip.num_travelers))

(***************************************************************************)
(* One APIClientManager over several calls, with the clock                 *)
(* (api_client.py).  Time is counted in ticks of 0.2 s.  window_age is     *)
(* now - _rate_limit_window_start, since_last is now - _last_<api>_request *)
(* (NoRequest while that is None), sent counts the requests handed to      *)
(* requests.get/post less than a minute after _rate_limit_window_start.    *)
(***************************************************************************)
TicksPerSecond == 5
WindowTicks == 60 * TicksPerSecond
NoRequest == 0 - 1

\* the minimum spacing _apply_rate_limit_delay enforces: 1.0 s and 0.6 s
MinSpacing(service) == IF service = "query_climatiq_api" THEN 5 ELSE 3

\* time passes: both clock readings grow; readings past the point where the
\* code still distinguishes them are kept at that point
Elapse(r, ticks) ==
    [r EXCEPT !.window_age = Min2(@ + ticks, WindowTicks + 1),
              !.since_last = IF @ = NoRequest THEN NoRequest
                             ELSE Min2(@ + ticks, MinSpacing(r.service))]

\* _check_rate_limit: a window older than a minute is reset, then the counter
\* is compared with the limit
check_rate_limit(r) ==
    LET reset == IF r.window_age > WindowTicks
                 THEN [r EXCEPT !.request_count = 0, !.window_age = 0, !.sent = 0]
                 ELSE r
    IN  [r |-> reset, ok |-> reset.request_count < RateLimit(r.service)]

\* _apply_rate_limit_delay: sleep until MinSpacing has passed since the last
\* request that was tracked
apply_rate_limit_delay(r) ==
    IF r.since_last # NoRequest /\ r.since_last < MinSpacing(r.service)
    THEN Elapse(r, MinSpacing(r.service) - r.since_last)
    ELSE r

\* _update_rate_limit_tracking, reached only when requests.get/post returned
update_rate_limit_tracking(r) ==
    [r EXCEPT !.since_last = 0, !.request_count = @ + 1]

\* the seconds the loop sleeps before its next attempt: Retry-After (default
\* 60) after a 429, 2 ** attempt after a 5xx, a timeout or a connection error,
\* 1 after another request error
RetrySleep(outcome, attempt) ==
    CASE outcome = "rate_limited" -> 60
      [] outcome \in {"server_error", "timeout", "connection_error"} ->
            (IF attempt = 0 THEN 1 ELSE IF attempt = 1 THEN 2 ELSE 4)
      [] OTHER -> 1

(***************************************************************************)
(* Specification SpecRate: a client that has served some paced traffic     *)
(* makes up to MaxApiCalls further calls                                   *)
(***************************************************************************)
MaxApiCalls == 3

RateFrame ==
    UNCHANGED <<lists, errRef, last, held, calls, pc, job, alts, altIn, fn, opt, api, geo, sess, app>>

\* the client after k calls that each sent one request and got its answer, the
\* requests MinSpacing apart from the creation of the client on
PacedTraffic ==
    /\ rate.pc = "new"
    /\ \E service \in Services :
       \E k \in {0, 1, RateLimit(service) - 1, RateLimit(service)} :
        rate' = [rate EXCEPT !.pc = "idle", !.service = service,
                             !.request_count = k, !.sent = k,
                             !.window_age = IF k = 0 THEN 0 ELSE (k - 1) * MinSpacing(service),
                             !.since_last = IF k = 0 THEN NoRequest ELSE 0]
    /\ RateFrame

\* a call arrives some time after the previous one returned and passes or
\* fails the rate-limit check
RateBegin ==
    /\ rate.pc = "idle"
    /\ rate.calls < MaxApiCalls
    /\ \E gap \in {0, TicksPerSecond, WindowTicks + 1}, max_retries \in 1..MaxRetries :
        LET c == check_rate_limit(Elapse(rate, gap))
        IN  rate' = IF c.ok
                    THEN [c.r EXCEPT !.pc = "attempt", !.attempt = 0,
                                     !.max_retries = max_retries, !.calls = @ + 1]
                    ELSE [c.r EXCEPT !.calls = @ + 1]
    /\ RateFrame

\* one iteration of the retry loop: delay, request, tracking, and the sleep
\* before the next attempt; a timeout lasts the 10 s of timeout=10
RateAttempt ==
    /\ rate.pc = "attempt"
    /\ \E outcome \in Outcomes(rate.service) :
        LET delayed == apply_rate_limit_delay(rate)
            requested == [delayed EXCEPT
                            !.sent = IF delayed.window_age < WindowTicks THEN @ + 1 ELSE @]
            answered == IF GotResponse(outcome) THEN update_rate_limit_tracking(requested)
                        ELSE IF outcome = "timeout"
                             THEN Elapse(requested, 10 * TicksPerSecond)
                        ELSE requested
        IN  \E decision \in Decide(rate.service, outcome) :
              rate' = IF decision = "retry" /\ MayRetry(rate.attempt, rate.max_retries)
                      THEN [Elapse(answered, RetrySleep(outcome, rate.attempt) * TicksPerSecond)
                                EXCEPT !.attempt = @ + 1]
                      ELSE [answered EXCEPT !.pc = "idle"]
    /\ RateFrame

NextRate ==
    \/ PacedTraffic
    \/ RateBegin
    \/ RateAttempt

SpecRate == Init /\ [][NextRate]_vars

\* C26: within one rate-limit window of a minute the client sends at most 60
\* requests to Climatiq and at most 100 to Google Maps, retries included.
C26_RequestsPerWindowWithinLimit ==
    rate.service \in Services => rate.sent <= RateLimit(rate.service)

(***************************************************************************)
(* predict_total_emissions (ml_emissions_model.py) and                     *)
(* optimize_for_emissions (route_optimizer.py)                             *)
(***************************************************************************)
\* emission_factor * distance_km * num_travelers, not rounded: in 1e-6 kg
predict_total_emissions(mode, distance_ckm, num_travelers) ==
    predict_emission_factor(mode, distance_ckm, num_travelers) * distance_ckm * num_travelers

RECURSIVE MinDistanceRoute(_, _, _, _)
\* the loop of optimize_for_distance: best is <<>> while best_route is None,
\* and only a strictly smaller distance replaces it
MinDistanceRoute(routes, origin, destination, best) ==
    IF routes = <<>> THEN best
    ELSE LET route == Head(routes)
             distance == calculate_route_distance(origin, destination, route.waypoints)
             measured == [route_id |-> route.route_id, waypoints |-> route.waypoints,
                          distance_km |-> distance]
         IN  MinDistanceRoute(Tail(routes), origin, destination,
                              IF best = <<>> \/ distance < best[1].distance_km
                              THEN <<measured>> ELSE best)

\* optimize_for_distance(origin, destination): <<>> stands for None
optimize_for_distance(origin, destination) ==
    MinDistanceRoute(generate_alternate_routes(origin, destination, 5),
                     origin, destination, <<>>)

\* optimize_for_emissions(origin, destination, mode) ignores the mode
optimize_for_emissions(origin, destination, mode) ==
    optimize_for_distance(origin, destination)

(***************************************************************************)
(* Specification SpecEmis: two predictions, or one optimisation            *)
(***************************************************************************)
EmisDistances == {0, 42718, 42765, 100000, 171000, 180000, 200000, 240000}

\* predict_total_emissions is called once, and once more to compare
PredictTotalEmissions ==
    /\ \/ fn.op = "none"
       \/ fn.op = "predict_total_emissions" /\ fn.prev = <<>>
    /\ \E mode \in SupportedSet, distance_ckm \in EmisDistances, num_travelers \in 1..2 :
        fn' = [op |-> "predict_total_emissions", mode |-> mode,
               distance_ckm |-> distance_ckm, num_travelers |-> num_travelers,
               result |-> predict_total_emissions(mode, distance_ckm, num_travelers),
               prev |-> IF fn.op = "none" THEN <<>> ELSE <<[fn EXCEPT !.prev = <<>>]>>]
    /\ FnFrame

OptimizeForEmissions ==
    /\ opt.op = "none"
    /\ \E pair \in RoutePairs, mode \in SupportedSet :
        opt' = [op |-> "optimize_for_emissions", origin |-> pair[1],
                destination |-> pair[2], mode |-> mode,
                result |-> optimize_for_emissions(pair[1], pair[2], mode)]
    /\ OptFrame

NextEmis ==
    \/ PredictTotalEmissions
    \/ OptimizeForEmissions

SpecEmis == Init /\ [][NextEmis]_vars

\* C27: for a fixed mode and traveler count the predicted total emissions never
\* decrease when the distance increases, and the variant optimize_for_emissions
\* returns has the minimum predicted emissions of all variants.
C27_EmissionsMonotoneSoShortestIsGreenest ==
    /\ (/\ fn.op = "predict_total_emissions"
        /\ fn.prev # <<>>
        /\ fn.prev[1].mode = fn.mode
        /\ fn.prev[1].num_travelers = fn.num_travelers
        /\ fn.prev[1].distance_ckm <= fn.distance_ckm)
            => fn.prev[1].result <= fn.result
    /\ (opt.op = "optimize_for_emissions" /\ opt.result # <<>>) =>
        LET routes == generate_alternate_routes(opt.origin, opt.destination, 5)
        IN  \A i \in 1..Len(routes) :
                predict_total_emissions(opt.mode, opt.result[1].distance_km, 1)
                    <= predict_total_emissions(opt.mode,
                            calculate_route_distance(opt.origin, opt.destination,
                                                     routes[i].waypoints), 1)

\* C28: for distinct known origin and destination, every variant the planner
\* returns has a waypoint path whose total distance is at least the distance of
\* the direct variant, and greater than 0.
C28_VariantAtLeastDirectAndPositive ==
    (/\ GeneratedRoutes
     /\ opt.origin # opt.destination
     /\ opt.origin \in CatalogCities
     /\ opt.destination \in CatalogCities) =>
        \A r \in Range(opt.result) :
            LET total_distance == calculate_route_distance(opt.origin, opt.destination, r.waypoints)
            IN  /\ total_distance >= calculate_route_distance(opt.origin, opt.destination, <<>>)
                /\ total_distance > 0

(***************************************************************************)
(* fetch_alternative_routes (api_client.py).  What query_google_maps_api   *)
(* returns is <<>> for None, else <<response>> with the keys of the dict,  *)
(* its status and its routes; a route is its first leg's distance in       *)
(* metres, or malformed (no 'legs').  Distances are in metres, durations   *)
(* in 1/100 hour.                                                          *)
(***************************************************************************)
DirectionsResponse(keys, status, routes) ==
    <<[keys |-> keys, status |-> status, routes |-> routes]>>

\* the error_info dict handle_api_errors returns, by its fields read here
handle_api_errors(response) ==
    IF response = <<>>
    THEN [has_error |-> TRUE, error_type |-> "no_response"]
    ELSE IF "error" \in response[1].keys
    THEN [has_error |-> TRUE, error_type |-> "api_error"]
    ELSE IF /\ "status" \in response[1].keys
            /\ response[1].status \in {"REQUEST_DENIED", "OVER_QUERY_LIMIT",
                                       "INVALID_REQUEST", "UNKNOWN_ERROR"}
    THEN [has_error |-> TRUE, error_type |-> "status_error"]
    ELSE [has_error |-> FALSE, error_type |-> "None"]

\* the truth value Python gives a dict: false only when it has no key
DictIsTrue(d) == DOMAIN d # {}

\* the truth value of an Optional[dict] response
ResponseIsTrue(response) == response # <<>> /\ response[1].keys # {}

RECURSIVE ProcessRoutes(_, _)
ProcessRoutes(routes, mode) ==
    IF routes = <<>> THEN <<>>
    ELSE (IF Head(routes).has_legs
          THEN <<[mode |-> mode, distance_m |-> Head(routes).distance_m,
                  duration_ch |-> 0, is_fallback |-> FALSE]>>
          ELSE <<>>)
         \o ProcessRoutes(Tail(routes), mode)

\* _process_directions_response(response, mode): malformed routes are skipped
process_directions_response(response, mode) ==
    IF "routes" \notin response[1].keys THEN <<>>
    ELSE ProcessRoutes(response[1].routes, mode)

\* round(500.0 / speed, 2) in 1/100 hour
FallbackDuration(mode) ==
    CASE mode = "Car"    -> RoundHalfEven(500 * 100, 60)
      [] mode = "Bus"    -> RoundHalfEven(500 * 100, 45)
      [] mode = "Train"  -> RoundHalfEven(500 * 100, 80)
      [] mode = "Flight" -> RoundHalfEven(500 * 100, 500)
      [] OTHER           -> RoundHalfEven(500 * 100, 50)

\* _create_fallback_route(origin, destination, mode).  get_city_coordinates
\* returns a tuple, so indexing it with 'latitude' raises when both cities are
\* known and the handler returns the default route (500 km, 8 h); otherwise
\* the distance is the default 500 km and the duration follows the speed.
create_fallback_route(origin, destination, mode) ==
    IF origin \in CatalogCities /\ destination \in CatalogCities
    THEN <<[mode |-> mode, distance_m |-> 500000, duration_ch |-> 800, is_fallback |-> TRUE]>>
    ELSE <<[mode |-> mode, distance_m |-> 500000, duration_ch |-> FallbackDuration(mode),
            is_fallback |-> TRUE]>>

\* mode_mapping.get(mode, mode.lower()): "None" stands for None
GoogleMode(mode) ==
    CASE mode = "Car"     -> "driving"
      [] mode = "Bus"     -> "transit"
      [] mode = "Train"   -> "transit"
      [] mode = "Flight"  -> "None"
      [] mode = "Walking" -> "walking"
      [] OTHER            -> mode

\* the routes stored for one mode, given what query_google_maps_api returned
RoutesForMode(origin, destination, mode, response) ==
    IF ResponseIsTrue(response) /\ ~DictIsTrue(handle_api_errors(response))
    THEN process_directions_response(response, mode)
    ELSE create_fallback_route(origin, destination, mode)

RECURSIVE FetchLoop(_, _, _, _, _, _)
\* the loop over travel_modes; routes_data is the dict built so far
FetchLoop(origin, destination, travel_modes, responses, i, routes_data) ==
    IF i > Len(travel_modes) THEN routes_data
    ELSE LET mode == travel_modes[i]
         IN  IF GoogleMode(mode) = "None"
             THEN FetchLoop(origin, destination, travel_modes, responses, i + 1, routes_data)
             ELSE FetchLoop(origin, destination, travel_modes, responses, i + 1,
                    [m \in DOMAIN routes_data \cup {mode} |->
                        IF m = mode
                        THEN RoutesForMode(origin, destination, mode, responses[i])
                        ELSE routes_data[m]])

\* fetch_alternative_routes(origin, destination, travel_modes), where
\* responses[i] is what the provider call for travel_modes[i] returns
fetch_alternative_routes(origin, destination, travel_modes, responses) ==
    FetchLoop(origin, destination, travel_modes, responses, 1, << >>)

(***************************************************************************)
(* Specification SpecFetch: one call of fetch_alternative_routes           *)
(***************************************************************************)
MaxFetchModes == 2

\* <<"driving", "transit">> is what travel_modes=None becomes
TravelModeLists ==
    {<<"driving", "transit">>}
    \cup UNION {[1..n -> {"Car", "Bus", "Train", "Flight", "Walking"}] : n \in 1..MaxFetchModes}

ProviderResponses ==
    { <<>>,
      DirectionsResponse({}, "", <<>>),
      DirectionsResponse({"error"}, "", <<>>),
      DirectionsResponse({"status", "routes"}, "ZERO_RESULTS", <<>>),
      DirectionsResponse({"status", "routes"}, "OK",
                         <<[has_legs |-> TRUE, distance_m |-> 510000]>>),
      DirectionsResponse({"status", "routes"}, "OK",
                         <<[has_legs |-> FALSE, distance_m |-> 0],
                           [has_legs |-> TRUE, distance_m |-> 427650]>>) }

FetchPairs == {<<"Chennai", "Coimbatore">>, <<"Atlantis", "Salem">>}

FetchAlternativeRoutes ==
    /\ fn.op = "none"
    /\ \E pair \in FetchPairs, travel_modes \in TravelModeLists :
        \E responses \in [1..Len(travel_modes) -> ProviderResponses] :
            fn' = [op |-> "fetch_alternative_routes", origin |-> pair[1],
                   destination |-> pair[2], travel_modes |-> travel_modes,
                   responses |-> responses,
                   result |-> fetch_alternative_routes(pair[1], pair[2],
                                                       travel_modes, responses)]
    /\ FnFrame

NextFetch == FetchAlternativeRoutes

SpecFetch == Init /\ [][NextFetch]_vars

\* the last call made for a mode: its response decides routes_data[mode]
LastCallFor(mode) ==
    CHOOSE i \in 1..Len(fn.travel_modes) :
        /\ fn.travel_modes[i] = mode
        /\ \A j \in (i + 1)..Len(fn.travel_modes) : fn.travel_modes[j] # mode

\* no response (None or an empty body), an error body, or an error status
ProviderFailed(response) ==
    \/ response = <<>>
    \/ response[1].keys = {}
    \/ "error" \in response[1].keys
    \/ /\ "status" \in response[1].keys
       /\ response[1].status \notin {"OK", "ZERO_RESULTS"}

\* C29: fetch_alternative_routes uses the local fallback estimate for a mode
\* only when the provider call for that mode failed (no response or an error
\* response); when the provider returned a successful response, the routes
\* returned for that mode are the ones derived from that response.
C29_FallbackOnlyOnProviderFailure ==
    fn.op = "fetch_alternative_routes" =>
        \A mode \in DOMAIN fn.result :
            LET response == fn.responses[LastCallFor(mode)]
            IN  /\ (\E r \in Range(fn.result[mode]) : r.is_fallback)
                        => ProviderFailed(response)
                /\ (~ProviderFailed(response) /\ "routes" \in response[1].keys)
                        => fn.result[mode] = ProcessRoutes(response[1].routes, mode)

(***************************************************************************)
(* app.py: one run of the script per user action.  The session keys        *)
(* trip_data, emissions_data and alternatives_data are app.trip,           *)
(* app.emissions and app.alternatives; app.made_for records the trip and   *)
(* the baseline the stored alternatives were generated for, app.shown what *)
(* the alternatives dashboard of the last run displayed.                   *)
(***************************************************************************)
\* the TripData built from the form data; the dates of the form play no part
TripOfForm(form_data) ==
    [origin_city |-> form_data.origin_city, destination_city |-> form_data.destination_city,
     outbound_date |-> Today + 1, return_date |-> NoDate,
     travel_modes |-> form_data.travel_modes, num_travelers |-> form_data.num_travelers,
     hotel_nights |-> 0]

\* GeographicDataManager.calculate_distance: 0.0 where the geodesic distance is None
calculate_distance(origin, destination) ==
    LET distance == calculate_geodesic_distance(origin, destination)
    IN  IF distance # NoDistance THEN distance ELSE 0

\* FormComponents.render_trip_form(): a submitted form is validated, stored in
\* the session when valid and returned, {} (here <<>>) when invalid; a form that
\* was not submitted returns its current state, not validated and not stored
render_trip_form(a, submitted, values) ==
    IF submitted
    THEN IF FormValid(TripOfForm(values), Today)
         THEN [app |-> [a EXCEPT !.trip = <<values>>], form_data |-> <<values>>]
         ELSE [app |-> a, form_data |-> <<>>]
    ELSE [app |-> a, form_data |-> <<values>>]

\* handle_carbon_calculation(form_data)
handle_carbon_calculation(a, form_data) ==
    LET distance_km == calculate_distance(form_data.origin_city, form_data.destination_city)
        emissions_result == calculate_total_emissions(FreshCalc, TripOfForm(form_data),
                                                      distance_km).ret
    IN  IF distance_km <= 0 THEN a
        ELSE [a EXCEPT !.trip = <<form_data>>,
                       !.emissions = <<[total_co2e_kg |-> emissions_result.total_co2e_kg]>>,
                       !.alternatives_generated = FALSE,
                       !.calculation_completed = TRUE]

\* handle_alternative_routes(trip_data, emissions_data)
handle_alternative_routes(a, trip_data, emissions_data) ==
    LET origin == trip_data.origin_city
        destination == trip_data.destination_city
        baseline_emissions == emissions_data.total_co2e_kg
        should_regenerate == ~a.alternatives_generated \/ a.alternatives = <<>>
        alternatives == generate_alternatives(calculate_distance(origin, destination),
                                              trip_data.travel_modes, baseline_emissions, {})
        stored == IF should_regenerate
                  THEN [a EXCEPT !.alternatives = SortByEmissions(alternatives),
                                 !.made_for = <<[trip |-> trip_data,
                                                 baseline |-> baseline_emissions]>>,
                                 !.alternatives_generated = TRUE]
                  ELSE a
    IN  IF origin = "" \/ destination = "" THEN a
        ELSE IF should_regenerate /\ alternatives = <<>> THEN a
        ELSE IF stored.alternatives # <<>>
        THEN [stored EXCEPT !.shown = <<[origin |-> origin, destination |-> destination,
                                         made_for |-> stored.made_for]>>]
        ELSE stored

\* step 1 of handle_main_workflow(): the calculation runs whenever the form
\* returned data
calculate_if_form_data(form) ==
    IF form.form_data # <<>>
    THEN handle_carbon_calculation(form.app, form.form_data[1])
    ELSE form.app

\* step 2 of handle_main_workflow(): the results, when emissions are stored
display_results(a) ==
    IF a.emissions = <<>> THEN a
    ELSE IF /\ a.trip # <<>>
            /\ a.trip[1].origin_city # ""
            /\ a.trip[1].destination_city # ""
    THEN handle_alternative_routes(a, a.trip[1], a.emissions[1])
    ELSE a

\* render_sidebar_actions(): the button pressed in this run, if any
render_sidebar_actions(a, button) ==
    CASE button = "Recalculate" ->
            IF a.trip # <<>> THEN handle_carbon_calculation(a, a.trip[1]) ELSE a
      [] button = "Clear All" ->
            [a EXCEPT !.trip = <<>>, !.emissions = <<>>, !.alternatives = <<>>,
                      !.made_for = <<>>, !.alternatives_generated = FALSE,
                      !.calculation_completed = FALSE]
      [] OTHER -> a

\* main(): one run of the script, handle_main_workflow() and then the sidebar
RunScript(submitted, values, button) ==
    \E form \in {render_trip_form([app EXCEPT !.shown = <<>>, !.widgets = values],
                                  submitted, values)} :
    \E calculated \in {calculate_if_form_data(form)} :
    \E displayed \in {display_results(calculated)} :
    \E sidebar \in {render_sidebar_actions(displayed, button)} :
        app' = [sidebar EXCEPT !.runs = @ + 1]

(***************************************************************************)
(* Specification SpecApp: at most MaxRuns runs of the script in a session  *)
(***************************************************************************)
MaxRuns == 3

FormValues ==
    [origin_city : {"Salem", "Atlantis"},
     destination_city : {"Chennai", "Coimbatore"},
     travel_modes : {<<>>, <<"Car">>},
     num_travelers : {1}]

\* the default values render_trip_form gives the widgets in this run
WidgetDefaults(a) ==
    IF a.trip = <<>> THEN DefaultWidgets ELSE a.trip[1]

\* the form state of a run in which the form is not submitted: the values the
\* widgets hold, or their defaults where the changed default replaced them
FormState(a) == {a.widgets, WidgetDefaults(a)}

AppFrame == UNCHANGED <<lists, errRef, last, held, calls, pc, job, alts, altIn, fn, opt, api, geo, sess, rate>>

SubmitForm ==
    /\ app.runs < MaxRuns
    /\ \E values \in FormValues : RunScript(TRUE, values, "none")
    /\ AppFrame

ClickRecalculate ==
    /\ app.runs < MaxRuns
    /\ \E values \in FormState(app) : RunScript(FALSE, values, "Recalculate")
    /\ AppFrame

ClickClearAll ==
    /\ app.runs < MaxRuns
    /\ \E values \in FormState(app) : RunScript(FALSE, values, "Clear All")
    /\ AppFrame

NextApp ==
    \/ SubmitForm
    \/ ClickRecalculate
    \/ ClickClearAll

SpecApp == Init /\ [][NextApp]_vars

\* C30: at the end of every run the alternatives held in the session were
\* generated for the trip and the baseline emissions the session holds, and
\* the alternatives a run displays were generated for the trip it displays
\* them for.
C30_AlternativesBelongToStoredTrip ==
    /\ app.alternatives # <<>> =>
          /\ app.trip # <<>>
          /\ app.emissions # <<>>
          /\ app.made_for = <<[trip |-> app.trip[1],
                               baseline |-> app.emissions[1].total_co2e_kg]>>
    /\ app.shown # <<>> =>
          /\ app.shown[1].made_for[1].trip.origin_city = app.shown[1].origin
          /\ app.shown[1].made_for[1].trip.destination_city = app.shown[1].destination

====
